---- MODULE Spec2Model ----
(***************************************************************************)
(* A model of the progressive path tracer of 02562-rendering.              *)
(*                                                                         *)
(*   Spec      the host render loop of week08/part3 (buttons, option       *)
(*             callback, requestAnimationFrame) driving the GPU queue, the *)
(*             per-pixel fragment tasks and the renderSrc -> renderDst     *)
(*             copy (the accumulator).                                     *)
(*   SpecPath  the bounce loop of one path in the fragment shaders of      *)
(*             week08/part3, week06/part1, part_002 and part_000 (lines    *)
(*             100-383 and 660-960), one step per intersect_scene and per  *)
(*             shade call.                                                 *)
(*   SpecScene one call of intersect_scene in week01/part1, part_000 and   *)
(*             week08/part3, one step per primitive tested.                *)
(*   SpecBsp   one call of intersect_trimesh in week06/part2 and           *)
(*             week08/part3, one step per iteration of its loop.           *)
(*   SpecBox   one call of intersect_min_max.                              *)
(*   SpecEmpty one call of intersect_scene on a mesh without triangles.    *)
(*   SpecLight the direct light of one call of a diffuse shader: the       *)
(*             shadow ray, its intersect_scene and the shaded value.       *)
(*   SpecTree  intersect_trimesh over node arrays of any shape: chains at  *)
(*             and beyond the depth cap, and child links that form cycles. *)
(*   SpecLive  Spec with the callbacks and the GPU scheduled fairly.       *)
(*   SpecW5    the host loop of week05/part1 (requestFrame, renderFrame)   *)
(*             with its subdivision buttons and the jitter array.          *)
(*   SpecRnd   mcg31, rnd and the light index of sample_area_light, in     *)
(*             32-bit integers and f32.                                    *)
(*                                                                         *)
(* Real numbers are exact rationals <<n, d>> with d > 0 in lowest terms;   *)
(* <<0, 0>> stands for a NaN/Inf produced by a division by zero.           *)
(***************************************************************************)
EXTENDS Integers, Sequences, FiniteSets, TLC

(***************************************************************************)
(* Exact rational arithmetic (f32 arithmetic without rounding).            *)
(***************************************************************************)
Abs(x) == IF x < 0 THEN -x ELSE x

RECURSIVE GCD(_, _)
GCD(a, b) == IF b = 0 THEN Abs(a) ELSE GCD(b, a % Abs(b))

NaN == <<0, 0>>

IsNaN(x) == x[2] = 0

Norm(n, d) ==
  IF d = 0 THEN NaN
  ELSE LET g == GCD(n, d)
           s == IF d < 0 THEN -1 ELSE 1
       IN <<s * (n \div g), s * (d \div g)>>

R(n) == <<n, 1>>

RAdd(x, y) ==
  IF IsNaN(x) \/ IsNaN(y) THEN NaN
  ELSE LET g == GCD(x[2], y[2])
       IN Norm(x[1] * (y[2] \div g) + y[1] * (x[2] \div g), (x[2] \div g) * y[2])

RNeg(x) == IF IsNaN(x) THEN NaN ELSE <<-x[1], x[2]>>

RSub(x, y) == RAdd(x, RNeg(y))

RMul(x, y) ==
  IF IsNaN(x) \/ IsNaN(y) THEN NaN
  ELSE LET g1 == GCD(x[1], y[2])
           g2 == GCD(y[1], x[2])
       IN IF x[1] = 0 \/ y[1] = 0 THEN <<0, 1>>
          ELSE Norm((x[1] \div g1) * (y[1] \div g2), (x[2] \div g2) * (y[2] \div g1))

\* x / y; a zero divisor gives NaN
RDiv(x, y) ==
  IF IsNaN(x) \/ IsNaN(y) \/ y[1] = 0 THEN NaN
  ELSE RMul(x, Norm(y[2], y[1]))

\* x < y for non-NaN rationals, by continued-fraction comparison (no products)
RECURSIVE RLess(_, _)
RLess(x, y) ==
  LET q1 == x[1] \div x[2]
      q2 == y[1] \div y[2]
      r1 == x[1] % x[2]
      r2 == y[1] % y[2]
  IN IF q1 # q2 THEN q1 < q2
     ELSE IF r2 = 0 THEN FALSE
     ELSE IF r1 = 0 THEN TRUE
     ELSE RLess(<<y[2], r2>>, <<x[2], r1>>)

\* comparisons with a NaN operand are false, as in IEEE arithmetic
RLt(x, y) == ~IsNaN(x) /\ ~IsNaN(y) /\ RLess(x, y)
RLe(x, y) == ~IsNaN(x) /\ ~IsNaN(y) /\ ~RLess(y, x)
RGt(x, y) == RLt(y, x)
RGe(x, y) == RLe(y, x)

RMax(x, y) == IF RLt(x, y) THEN y ELSE x
RMin(x, y) == IF RLt(y, x) THEN y ELSE x
RAbs(x) == IF IsNaN(x) THEN NaN ELSE <<Abs(x[1]), x[2]>>

(***************************************************************************)
(* Bounds of the model.                                                    *)
(***************************************************************************)
NumPixels == 2      \* pixels of the canvas
MaxFrame == 2       \* frames rendered before the host stops ticking
MaxPending == 2     \* requestAnimationFrame callbacks waiting at once
MaxQueue == 1       \* command buffers submitted and not yet started
MaxSample == 1      \* per-frame sample colours are 0 .. MaxSample
MaxGamma == 2       \* gamma slider values are 1 .. MaxGamma
MaxZoomSteps == 1   \* wheel notches away from the initial zoom

\* Math.min(Math.max(g_zoomValue, 0.1), 10.0), in tenths
ZoomMin == 1
ZoomMax == 100

Pixels == 1 .. NumPixels
Samples == {R(c) : c \in 0 .. MaxSample}
Gammas == 1 .. MaxGamma
\* the triangle shaders of the page's select: shade() runs lambertian for 1
\* and its default case for 0
ShaderIndices == {0, 1}

VARIABLES
  \* ---- host (JavaScript) state, week08/part3
  frame,        \* let frame
  keepRender,   \* let keepRender
  pending,      \* progressiveRender callbacks handed to requestAnimationFrame
  options,      \* what getOptions() reads from the page
  \* ---- GPU state
  queue,        \* command buffers submitted, oldest first
  running,      \* the command buffer being executed, or Idle
  todo,         \* pixels whose fragment task of the running pass has not run
  renderSrc,    \* textures.renderSrc: colour attachment 1
  renderDst,    \* textures.renderDst: binding 4, read by textureLoad
  canvas,       \* colour attachment 0: what is displayed
  \* ---- history (not program state)
  sinceReset,   \* renders issued since the last reset
  sampleSum,    \* per pixel, the sum of the samples since the last reset
  sampleCount   \* per pixel, how many samples that is

hostVars == <<frame, keepRender, pending, options>>
gpuVars == <<queue, running, todo, renderSrc, renderDst, canvas>>
histVars == <<sinceReset, sampleSum, sampleCount>>
accVars == <<hostVars, gpuVars, histVars>>

Idle == [frame |-> -1, gamma |-> 0, k |-> -1]

\* pow(c, 1 / gamma), exact where it is rational and symbolic elsewhere
Pow(c, gamma) ==
  IF gamma = 1 \/ c = R(0) \/ c = R(1) THEN c ELSE <<"pow", c, gamma>>

IsLinear(v) == Len(v) = 2

\* a value that arithmetic on a gamma-encoded texel produces
NonLinear == <<"nonlinear", NaN, 0>>

\* main_fs with the gamma-corrected colour written to both outputs
main_fs_gamma_accum(res, texel, u) ==
  LET accum_color == IF IsLinear(texel)
                     THEN RDiv(RAdd(res, RMul(texel, R(u.frame))), R(u.frame + 1))
                     ELSE NonLinear
      shown == IF IsLinear(accum_color) THEN Pow(accum_color, u.gamma) ELSE NonLinear
  IN [frame |-> shown, accum |-> shown]

\* main_fs keeping a raw sum instead of a mean
main_fs_nodiv(res, texel, u) ==
  LET accum_color == RAdd(res, RMul(texel, R(u.frame)))
  IN [frame |-> Pow(accum_color, u.gamma), accum |-> accum_color]

\* main_fs loading the texel of the first pixel, whichever pixel it shades
main_fs_first_texel(res, texel, u) ==
  LET curr_sum == RMul(renderDst[1], R(u.frame))
      accum_color == RDiv(RAdd(res, curr_sum), R(u.frame + 1))
  IN [frame |-> Pow(accum_color, u.gamma), accum |-> accum_color]

\* main_fs, lines 316-318: the running mean and the two outputs
main_fs(res, texel, u) ==
  LET curr_sum == RMul(texel, R(u.frame))
      accum_color == RDiv(RAdd(res, curr_sum), R(u.frame + 1))
  IN [frame |-> Pow(accum_color, u.gamma), accum |-> accum_color]

\* getOptions()
getOptions == options

\* requestAnimationFrame(progressiveRender)
requestAnimationFrame(n) == n + 1

\* render(): write the uniforms, encode the pass and the copy, submit.  Of the
\* uniforms, lines 316-318 read frame and gamma; the shader index, the zoom and
\* the background switch decide only the sample colour res, which GpuFragment
\* draws freely, so a queued command carries frame and gamma
render == Append(queue, [frame |-> frame, gamma |-> getOptions.gamma, k |-> sinceReset])

AccInit ==
  \* main() has run: it ends with one direct call of progressiveRender()
  /\ frame = 1
  /\ keepRender = FALSE
  /\ pending = 0
  \* the page, which sets the controls' initial values, is not in the repository
  /\ \E g \in Gammas, sh \in ShaderIndices, bg \in {0, 1} :
        /\ options = [gamma |-> g, shader |-> sh, background |-> bg, zoom |-> 10]
        /\ queue = <<[frame |-> 0, gamma |-> g, k |-> 0]>>
  /\ running = Idle
  /\ todo = {}
  /\ renderSrc = [p \in Pixels |-> R(0)]
  /\ renderDst = [p \in Pixels |-> R(0)]
  /\ canvas = [p \in Pixels |-> R(0)]
  /\ sinceReset = 1
  /\ sampleSum = [p \in Pixels |-> R(0)]
  /\ sampleCount = [p \in Pixels |-> 0]

\* render-button onclick
ClickRender ==
  /\ pending < MaxPending
  /\ pending' = IF ~keepRender THEN requestAnimationFrame(pending) ELSE pending
  /\ UNCHANGED <<frame, keepRender, options, gpuVars, histVars>>

\* render-toggle onclick
ClickToggle ==
  /\ pending < MaxPending
  /\ keepRender' = ~keepRender
  /\ pending' = IF keepRender' THEN requestAnimationFrame(pending) ELSE pending
  /\ UNCHANGED <<frame, options, gpuVars, histVars>>

\* the reset common to render-reset onclick and the setupOptions callback
ResetFrame_keep == frame

ResetFrame == 0

\* render-reset onclick
ClickReset ==
  /\ pending < MaxPending
  /\ frame' = ResetFrame
  /\ pending' = IF ~keepRender THEN requestAnimationFrame(pending) ELSE pending
  /\ sinceReset' = 0
  /\ UNCHANGED <<keepRender, options, gpuVars, sampleSum, sampleCount>>

\* the callback given to setupOptions
callback ==
  /\ pending < MaxPending
  /\ frame' = ResetFrame
  /\ pending' = IF ~keepRender THEN requestAnimationFrame(pending) ELSE pending
  /\ sinceReset' = 0
  /\ UNCHANGED <<keepRender, gpuVars, sampleSum, sampleCount>>

\* gamma-slider oninput
GammaInput ==
  /\ \E g \in Gammas \ {options.gamma} : options' = [options EXCEPT !.gamma = g]
  /\ callback

\* triangle-shader-select onchange
ShaderChange ==
  /\ \E sh \in ShaderIndices \ {options.shader} : options' = [options EXCEPT !.shader = sh]
  /\ callback

\* enable-background onchange
BackgroundChange ==
  /\ options' = [options EXCEPT !.background = 1 - @]
  /\ callback

\* the canvas wheel listener; g_zoomValue is kept in tenths
Wheel ==
  /\ \E deltaY \in {-1, 1} :
        LET moved == IF deltaY < 0 THEN options.zoom + 1 ELSE options.zoom - 1
            clamped == IF moved < ZoomMin THEN ZoomMin
                       ELSE IF moved > ZoomMax THEN ZoomMax ELSE moved
        IN /\ Abs(clamped - 10) <= MaxZoomSteps
           /\ options' = [options EXCEPT !.zoom = clamped]
  /\ callback

\* frame++ of progressiveRender
NextFrame_stuck(f) == f

NextFrame(f) == f + 1

\* an animation frame runs one waiting progressiveRender callback
progressiveRender ==
  /\ pending > 0
  /\ frame < MaxFrame
  /\ Len(queue) < MaxQueue
  /\ queue' = render
  /\ frame' = NextFrame(frame)
  /\ sinceReset' = sinceReset + 1
  /\ pending' = IF keepRender THEN requestAnimationFrame(pending - 1) ELSE pending - 1
  /\ UNCHANGED <<keepRender, options, running, todo, renderSrc, renderDst, canvas,
                 sampleSum, sampleCount>>

\* the GPU starts the render pass of the next command buffer
GpuBeginPass ==
  /\ running = Idle
  /\ queue # <<>>
  /\ running' = Head(queue)
  /\ queue' = Tail(queue)
  /\ todo' = Pixels
  /\ UNCHANGED <<hostVars, renderSrc, renderDst, canvas, histVars>>

\* one fragment task of the pass: pixel p with path-traced sample res
GpuFragment(p, res) ==
  /\ running # Idle
  /\ p \in todo
  /\ LET out == main_fs(res, renderDst[p], running)
     IN /\ canvas' = [canvas EXCEPT ![p] = out.frame]
        /\ renderSrc' = [renderSrc EXCEPT ![p] = out.accum]
  /\ todo' = todo \ {p}
  /\ sampleSum' = [sampleSum EXCEPT ![p] = IF running.k = 0 THEN res ELSE RAdd(@, res)]
  /\ sampleCount' = [sampleCount EXCEPT ![p] = IF running.k = 0 THEN 1 ELSE @ + 1]
  /\ UNCHANGED <<hostVars, queue, running, renderDst, sinceReset>>

\* copyTextureToTexture(renderSrc -> renderDst), after pass.end()
CopyTexture_none == renderDst

CopyTexture == renderSrc

GpuCopy ==
  /\ running # Idle
  /\ todo = {}
  /\ renderDst' = CopyTexture
  /\ running' = Idle
  /\ UNCHANGED <<hostVars, queue, todo, renderSrc, canvas, histVars>>

(***************************************************************************)
(* The bounce loops (SpecPath).  Colours are vec3f of rationals;           *)
(* directions and normals are unit vectors of a plane with rational        *)
(* entries, so that dot and reflect are exact.  What the scene answers to  *)
(* a ray (which primitive, which normal) and what the random number        *)
(* generator draws are inputs of the actions.                              *)
(***************************************************************************)
V3(x) == <<x, x, x>>

VAdd(a, b) == <<RAdd(a[1], b[1]), RAdd(a[2], b[2]), RAdd(a[3], b[3])>>

VMul(a, b) == <<RMul(a[1], b[1]), RMul(a[2], b[2]), RMul(a[3], b[3])>>

VScale(a, s) == <<RMul(a[1], s), RMul(a[2], s), RMul(a[3], s)>>

VDiv(a, s) == <<RDiv(a[1], s), RDiv(a[2], s), RDiv(a[3], s)>>

\* (v.r + v.g + v.b) / 3.0
Mean3(v) == RDiv(RAdd(RAdd(v[1], v[2]), v[3]), R(3))

IsNaN3(v) == IsNaN(v[1]) \/ IsNaN(v[2]) \/ IsNaN(v[3])

dot(a, b) == RAdd(RMul(a[1], b[1]), RMul(a[2], b[2]))

Neg2(a) == <<RNeg(a[1]), RNeg(a[2])>>

\* reflect(e1, e2) = e1 - 2 * dot(e2, e1) * e2
reflect(e1, e2) ==
  LET k == RMul(R(2), dot(e2, e1))
  IN <<RSub(e1[1], RMul(k, e2[1])), RSub(e1[2], RMul(k, e2[2]))>>

\* a decimal too large for the integers of the model: m * 10^e
Sci(m, e) == <<"e", m, e>>

\* ray directions: 37 and 53 degrees off the vertical, left to right
Dirs == {<<<<4, 5>>, <<3, 5>>>>, <<<<4, 5>>, <<-3, 5>>>>,
         <<<<3, 5>>, <<4, 5>>>>, <<<<3, 5>>, <<-4, 5>>>>}

\* surface normals: up and down
Normals == {<<R(0), R(1)>>, <<R(0), R(-1)>>}

\* the random numbers drawn by rnd(): 0 is a value mcg31 can return
Xi == {R(0), <<3, 4>>}

\* materials of the mesh: grey, and a black emitter
Materials == {[diffuse |-> V3(<<1, 2>>), emission |-> V3(R(0))],
              [diffuse |-> V3(R(0)), emission |-> V3(R(1))]}

\* a sample of the area light, as sample_area_light finds it from the hit:
\* power is emission * area * numLights in units of Pi (over dist * dist in
\* week06/part1), cos_light is dot(-w_i, n_light) and cos is
\* dot(hit.normal, w_i); the first is the zero light of numLights = 0
LightSamples ==
  {[power |-> V3(R(0)), cos_light |-> R(0), cos |-> R(0)]} \cup
  [power : {V3(R(1))}, cos_light : {R(1), <<-1, 2>>}, cos : {R(1), <<-1, 2>>}]

\* the Light sample_area_light returns, with dot(hit.normal, light.w_i):
\* week08/part3 and part_002 clamp the cosine at the light, week06/part1
\* does not
sample_area_light(p, s) ==
  [L_i |-> VScale(s.power, IF p \in {"week08/part3", "part_002"}
                           THEN RMax(s.cos_light, R(0))
                           ELSE s.cos_light),
   cos |-> s.cos]

Lights(p) == {sample_area_light(p, s) : s \in LightSamples}

\* the Light sample_point_light returns, Li in units of PI, with
\* dot(hit.normal, L.omega) and the dot(R, V) of shade_phong: the light above
\* the surface and towards the eye, or below the surface and away
PointLights ==
  {[L_i |-> V3(R(1)), cos |-> R(1), r_dot_v |-> R(1)],
   [L_i |-> V3(R(1)), cos |-> <<-1, 2>>, r_dot_v |-> <<-1, 2>>]}

\* pow(x, y) for the bases 0 and 1 of the model (0 to the 0 is not defined)
pow(x, y) ==
  IF x = R(1) THEN R(1) ELSE IF x = R(0) /\ RGt(y, R(0)) THEN R(0) ELSE NaN

\* the distance and the position of every hit of the model
HitDistance == R(10)
HitPosition == <<R(1), R(0)>>

\* exp(-x) for x >= 0, rounded to the nearest of 1, 1/2 and 0
\* (exp(-0.29) = 0.75, exp(-1.39) = 0.25)
exp_neg(x) ==
  IF RLt(x, <<29, 100>>) THEN R(1)
  ELSE IF RLt(x, <<139, 100>>) THEN <<1, 2>> ELSE R(0)

\* shadow rays of one path that find the light unoccluded
MaxLit == 1

\* the loop bounds of the fragment shaders
MeshBounces == 10
MAX_BOUNCES == 8

bgcolor == <<<<1, 10>>, <<3, 10>>, <<3, 5>>>>

Programs == {"week08/part3", "week06/part1", "part_002", "part_000/1", "part_000/3"}

AnalyticPrograms == {"part_000/1", "part_000/3"}

VARIABLES
  prog,         \* which fragment shader runs
  uniforms,     \* triangle_shader (enable_background is read once, at a miss)
  r,            \* var r: Ray
  hit,          \* var hit: HitInfo
  res,          \* var res / final_color
  loop_i,       \* the loop counter i
  pc,           \* "intersect", "shade" or "done"
  \* ---- history (not program state)
  terminal,     \* why the loop was left, "active" before
  nIntersect,   \* calls of intersect_scene made by the loop
  last,         \* the branch the last shader call took and what it drew
  nLit          \* shadow rays of the path that found the light

pathVars == <<prog, uniforms, r, hit, res, loop_i, pc, terminal, nIntersect, last,
              nLit>>

default_hitinfo ==
  [has_hit |-> FALSE, distance |-> R(0), position |-> <<R(0), R(0)>>,
   normal |-> <<R(0), R(0)>>, diffuse |-> V3(R(0)), emission |-> V3(R(0)),
   ior1_over_ior2 |-> R(0), shader |-> 0, emit |-> TRUE,
   throughput |-> V3(R(1)), extinction |-> V3(R(0))]

default_hitinfo_w06 ==
  [has_hit |-> FALSE, distance |-> R(0), position |-> <<R(0), R(0)>>,
   normal |-> <<R(0), R(0)>>, diffuse |-> V3(R(0)), emission |-> V3(R(0)),
   ior1_over_ior2 |-> R(0), shader |-> 0]

\* the new ray of a bounce: r.tmin = 1e-3; r.tmax = 1e6
NextRay(origin, direction) ==
  [origin |-> origin, direction |-> direction, tmin |-> <<1, 1000>>,
   tmax |-> R(1000000)]

\* lambertian without the division by Pd
lambertian_nodiv(ray, h, in) ==
  LET direct == IF in.V
                THEN VScale(VMul(h.diffuse, in.light.L_i), RMax(in.light.cos, R(0)))
                ELSE V3(R(0))
      tp == VMul(h.throughput, h.diffuse)
      Pd == Mean3(tp)
  IN IF RLt(in.xi, Pd)
     THEN [r |-> NextRay(h.position, in.w),
           hit |-> [h EXCEPT !.throughput = tp, !.emit = FALSE,
                             !.has_hit = FALSE],
           value |-> VAdd(direct, h.emission), branch |-> "survived"]
     ELSE [r |-> ray, hit |-> [h EXCEPT !.throughput = tp],
           value |-> VAdd(direct, h.emission), branch |-> "roulette"]

\* lambertian with the roulette test rnd(t) <= Pd
lambertian_le(ray, h, in) ==
  LET direct == IF in.V
                THEN VScale(VMul(h.diffuse, in.light.L_i), RMax(in.light.cos, R(0)))
                ELSE V3(R(0))
      tp == VMul(h.throughput, h.diffuse)
      Pd == Mean3(tp)
  IN IF RLe(in.xi, Pd)
     THEN [r |-> NextRay(h.position, in.w),
           hit |-> [h EXCEPT !.throughput = VDiv(tp, Pd), !.emit = FALSE,
                             !.has_hit = FALSE],
           value |-> VAdd(direct, h.emission), branch |-> "survived"]
     ELSE [r |-> ray, hit |-> [h EXCEPT !.throughput = tp],
           value |-> VAdd(direct, h.emission), branch |-> "roulette"]

\* lambertian: in.V is the visibility of the light, in.light the sampled
\* light, in.xi the roulette draw, in.w the sampled cosine-weighted direction
lambertian(ray, h, in) ==
  LET direct == IF in.V
                THEN VScale(VMul(h.diffuse, in.light.L_i), RMax(in.light.cos, R(0)))
                ELSE V3(R(0))
      tp == VMul(h.throughput, h.diffuse)
      Pd == Mean3(tp)
  IN IF RLt(in.xi, Pd)
     THEN [r |-> NextRay(h.position, in.w),
           hit |-> [h EXCEPT !.throughput = VDiv(tp, Pd), !.emit = FALSE,
                             !.has_hit = FALSE],
           value |-> VAdd(direct, h.emission), branch |-> "survived"]
     ELSE [r |-> ray, hit |-> [h EXCEPT !.throughput = tp],
           value |-> VAdd(direct, h.emission), branch |-> "roulette"]

mirror(ray, h) ==
  [r |-> NextRay(h.position, reflect(ray.direction, h.normal)),
   hit |-> [h EXCEPT !.emit = TRUE, !.has_hit = FALSE],
   value |-> V3(R(0)), branch |-> "mirror"]

\* transparent keeping eta = ior1_over_ior2 for a ray that is inside
transparent_noinv(ray, h, in) ==
  LET cos0 == dot(Neg2(ray.direction), h.normal)
      inside == RLt(cos0, R(0))
      eta == h.ior1_over_ior2
      n == IF inside THEN Neg2(h.normal) ELSE h.normal
      costhetai == IF inside THEN RNeg(cos0) ELSE cos0
      x == VScale(h.extinction, h.distance)
      Tr == <<exp_neg(x[1]), exp_neg(x[2]), exp_neg(x[3])>>
      prob == Mean3(Tr)
      h1 == [h EXCEPT !.emit = TRUE]
      h2 == [h1 EXCEPT !.throughput = IF inside THEN VMul(@, VDiv(Tr, prob)) ELSE @]
      sin2thetat == RMul(RMul(eta, eta), RSub(R(1), RMul(costhetai, costhetai)))
  IN IF inside /\ ~RLt(in.xi, prob)
     THEN [r |-> ray, hit |-> h1, value |-> V3(R(0)), branch |-> "absorbed"]
     ELSE IF RGt(sin2thetat, R(1)) THEN mirror(ray, h2)
     ELSE [r |-> NextRay(h.position,
                         IF in.reflects THEN reflect(ray.direction, h.normal)
                         ELSE in.wt),
           hit |-> [h2 EXCEPT !.has_hit = FALSE], value |-> V3(R(0)),
           branch |-> IF in.reflects THEN "reflected" ELSE "refracted"]

\* transparent absorbing on the way in as well as on the way out
transparent_outside(ray, h, in) ==
  LET cos0 == dot(Neg2(ray.direction), h.normal)
      inside == RLt(cos0, R(0))
      eta == IF inside THEN RDiv(R(1), h.ior1_over_ior2) ELSE h.ior1_over_ior2
      n == IF inside THEN Neg2(h.normal) ELSE h.normal
      costhetai == IF inside THEN RNeg(cos0) ELSE cos0
      x == VScale(h.extinction, h.distance)
      Tr == <<exp_neg(x[1]), exp_neg(x[2]), exp_neg(x[3])>>
      prob == Mean3(Tr)
      h1 == [h EXCEPT !.emit = TRUE]
      h2 == [h1 EXCEPT !.throughput = VMul(@, VDiv(Tr, prob))]
      sin2thetat == RMul(RMul(eta, eta), RSub(R(1), RMul(costhetai, costhetai)))
  IN IF ~RLt(in.xi, prob)
     THEN [r |-> ray, hit |-> h1, value |-> V3(R(0)), branch |-> "absorbed"]
     ELSE IF RGt(sin2thetat, R(1)) THEN mirror(ray, h2)
     ELSE [r |-> NextRay(h.position,
                         IF in.reflects THEN reflect(ray.direction, h.normal)
                         ELSE in.wt),
           hit |-> [h2 EXCEPT !.has_hit = FALSE], value |-> V3(R(0)),
           branch |-> IF in.reflects THEN "reflected" ELSE "refracted"]

\* transparent: in.xi is the absorption draw, in.reflects whether the Fresnel
\* draw is below R, in.wt the refracted direction (its square root is not
\* rational, so it is any direction on the far side of the surface)
transparent(ray, h, in) ==
  LET cos0 == dot(Neg2(ray.direction), h.normal)
      inside == RLt(cos0, R(0))
      eta == IF inside THEN RDiv(R(1), h.ior1_over_ior2) ELSE h.ior1_over_ior2
      n == IF inside THEN Neg2(h.normal) ELSE h.normal
      costhetai == IF inside THEN RNeg(cos0) ELSE cos0
      x == VScale(h.extinction, h.distance)
      Tr == <<exp_neg(x[1]), exp_neg(x[2]), exp_neg(x[3])>>
      prob == Mean3(Tr)
      h1 == [h EXCEPT !.emit = TRUE]
      h2 == [h1 EXCEPT !.throughput = IF inside THEN VMul(@, VDiv(Tr, prob)) ELSE @]
      sin2thetat == RMul(RMul(eta, eta), RSub(R(1), RMul(costhetai, costhetai)))
  IN IF inside /\ ~RLt(in.xi, prob)
     THEN [r |-> ray, hit |-> h1, value |-> V3(R(0)), branch |-> "absorbed"]
     ELSE IF RGt(sin2thetat, R(1)) THEN mirror(ray, h2)
     ELSE [r |-> NextRay(h.position,
                         IF in.reflects THEN reflect(ray.direction, h.normal)
                         ELSE in.wt),
           hit |-> [h2 EXCEPT !.has_hit = FALSE], value |-> V3(R(0)),
           branch |-> IF in.reflects THEN "reflected" ELSE "refracted"]

shade(ray, h, in) ==
  CASE h.shader = 1 -> lambertian(ray, h, in)
    [] h.shader = 3 -> mirror(ray, h)
    [] h.shader = 6 -> transparent(ray, h, in)
    [] OTHER -> [r |-> ray, hit |-> h, value |-> VAdd(h.diffuse, h.emission),
                 branch |-> "default"]

\* why the loop is left after a shader call that took this branch and brought
\* the loop counter to i: the path's state after the call
Terminal(branch, i, cap) ==
  CASE branch = "roulette" -> "rr"
    [] branch = "absorbed" -> "absorbed"
    [] branch \in {"survived", "mirror", "reflected", "refracted", "glossy"} ->
         IF i >= cap THEN "cap" ELSE "active"
    [] OTHER -> "shader"

\* a loop that never breaks after a shader call
LoopBreaks_never(flag) == FALSE

\* if (hit.has_hit) { break; } and if (!hit.continue_ray) { break; }
LoopBreaks(flag) == flag

\* which shader calls sample a light and which refract
UsesLight(p, sh) ==
  \/ p \in {"week08/part3", "week06/part1", "part_002", "part_000/1"} /\ sh = 1
  \/ p = "part_000/3" /\ sh \in {1, 2, 5}

UsesRefraction(p, sh) ==
  \/ p = "week08/part3" /\ sh = 6
  \/ p = "week06/part1" /\ sh = 4
  \/ p = "part_000/1" /\ sh = 3
  \/ p = "part_000/3" /\ sh \in {4, 5}

\* the draws and samples the shader call at hit h of ray may consume: the
\* shadow ray and the light sample, the roulette draw and the sampled
\* direction, the Fresnel draw and the refracted direction
ShadeInputs(p, ray, h) ==
  LET light == UsesLight(p, h.shader)
      refr == UsesRefraction(p, h.shader)
      w08 == p = "week08/part3"
      inside == RGt(dot(ray.direction, h.normal), R(0))
      flipped == IF inside THEN Neg2(h.normal) ELSE h.normal
      dark == [L_i |-> V3(R(0)), cos |-> R(0), r_dot_v |-> R(0)]
      shadow == {[V |-> FALSE, light |-> dark]} \cup
                (IF light /\ nLit < MaxLit
                 THEN [V : {TRUE},
                       light : IF p \in AnalyticPrograms THEN PointLights
                               ELSE Lights(p)]
                 ELSE {})
      roulette == [xi : IF w08 /\ (light \/ (refr /\ inside)) THEN Xi ELSE {R(0)},
                   w : IF w08 /\ light
                       THEN {d \in Dirs : RGt(dot(d, h.normal), R(0))}
                       ELSE {ray.direction}]
      fresnel == {[reflects |-> TRUE, wt |-> ray.direction]} \cup
                 (IF refr
                  THEN [reflects : {FALSE},
                        wt : {d \in Dirs : RLt(dot(d, flipped), R(0))}]
                  ELSE {})
  IN {[V |-> a.V, light |-> a.light, xi |-> b.xi,
       w |-> b.w, reflects |-> c.reflects, wt |-> c.wt] :
        a \in shadow, b \in roulette, c \in fresnel}

\* a shadow ray found the light and the light has radiance
Lit(p, in) == in.V /\ (p \in AnalyticPrograms \/ in.light.L_i # V3(R(0)))

\* week08/part3 main_fs, the else branch of the loop: intersect_scene is false
W08Miss(enable_background) ==
  /\ prog = "week08/part3"
  /\ pc = "intersect"
  /\ res' = VAdd(res, VMul(hit.throughput,
                           IF enable_background = 1 THEN bgcolor
                           ELSE V3(R(0))))
  /\ pc' = "done"
  /\ terminal' = "miss"
  /\ nIntersect' = nIntersect + 1
  /\ last' = [branch |-> "miss", xi |-> R(0)]
  /\ UNCHANGED <<prog, uniforms, r, hit, loop_i, nLit>>

\* intersect_scene finds prim nearest, with normal n there; a mesh triangle
\* has material mat
intersect_scene_hit(h, prim, n, mat) ==
  LET h1 == [h EXCEPT !.has_hit = TRUE, !.distance = HitDistance, !.normal = n]
  IN CASE prim = "sphere1" ->
            [h1 EXCEPT !.position = HitPosition, !.shader = 3]
       [] prim = "sphere2" ->
            [h1 EXCEPT !.position = HitPosition,
                       !.ior1_over_ior2 = <<2, 3>>, !.shader = 6,
                       !.extinction = <<<<1, 100>>, R(1), R(0)>>]
       [] OTHER ->
            [h1 EXCEPT !.position = HitPosition, !.diffuse = mat.diffuse,
                       !.emission = mat.emission,
                       !.shader = uniforms.triangle_shader]

W08Hit(prim, n, mat) ==
  /\ prog = "week08/part3"
  /\ pc = "intersect"
  /\ hit' = intersect_scene_hit(hit, prim, n, mat)
  /\ r' = [r EXCEPT !.tmax = hit'.distance]
  /\ pc' = "shade"
  /\ nIntersect' = nIntersect + 1
  /\ UNCHANGED <<prog, uniforms, res, loop_i, terminal, last, nLit>>

\* res += hit.throughput * shade(&r, &hit, &t); if (hit.has_hit) { break; }
\* and the i++ and i < 10 of the loop
W08Shade(in) ==
  /\ prog = "week08/part3"
  /\ pc = "shade"
  /\ \E s \in {shade(r, hit, in)} :
     LET left == LoopBreaks(s.hit.has_hit)
     IN /\ res' = VAdd(res, VMul(hit.throughput, s.value))
        /\ r' = s.r
        /\ hit' = s.hit
        /\ last' = [branch |-> s.branch, xi |-> in.xi]
        /\ nLit' = IF Lit(prog, in) THEN nLit + 1 ELSE nLit
        /\ loop_i' = IF left THEN loop_i ELSE loop_i + 1
        /\ pc' = IF left \/ loop_i' >= MeshBounces THEN "done" ELSE "intersect"
        /\ terminal' = Terminal(s.branch, loop_i', MeshBounces)
  /\ UNCHANGED <<prog, uniforms, nIntersect>>

(***************************************************************************)
(* week06/part1, the shader of lines 440-740: no throughput, no roulette.  *)
(***************************************************************************)
\* in.light.L_i is in units of 3.14; the cosine is not clamped
lambertian_w06(ray, h, in) ==
  [r |-> ray, hit |-> h,
   value |-> IF ~in.V THEN h.emission
             ELSE VAdd(VScale(VMul(h.diffuse, in.light.L_i), in.light.cos),
                       h.emission),
   branch |-> "lambertian"]

mirror_w06(ray, h) ==
  [r |-> [origin |-> h.position, direction |-> reflect(ray.direction, h.normal),
          tmin |-> <<1, 100>>, tmax |-> R(1000000)],
   hit |-> [h EXCEPT !.has_hit = FALSE], value |-> V3(R(0)), branch |-> "mirror"]

refraction(ray, h, in) ==
  LET cos0 == dot(Neg2(ray.direction), h.normal)
      inside == RLt(cos0, R(0))
      eta == IF inside THEN RDiv(R(1), h.ior1_over_ior2) ELSE h.ior1_over_ior2
      n == IF inside THEN Neg2(h.normal) ELSE h.normal
      costhetai == dot(Neg2(ray.direction), n)
      sin2thetai == RSub(R(1), RMul(costhetai, costhetai))
      cos2thetat == RSub(R(1), RMul(RMul(eta, eta), sin2thetai))
  IN IF RLt(cos2thetat, R(0)) THEN mirror_w06(ray, h)
     ELSE [r |-> [origin |-> h.position, direction |-> in.wt,
                  tmin |-> <<1, 100>>, tmax |-> R(1000000)],
           hit |-> [h EXCEPT !.has_hit = FALSE], value |-> V3(R(0)),
           branch |-> "refracted"]

shade_w06(ray, h, in) ==
  CASE h.shader = 1 -> lambertian_w06(ray, h, in)
    [] h.shader = 3 -> mirror_w06(ray, h)
    [] h.shader = 4 -> refraction(ray, h, in)
    [] OTHER -> [r |-> ray, hit |-> h, value |-> VAdd(h.diffuse, h.emission),
                 branch |-> "default"]

intersect_scene_hit_w06(h, prim, n, mat) ==
  LET h1 == [h EXCEPT !.has_hit = TRUE, !.distance = HitDistance,
                      !.position = HitPosition, !.normal = n]
  IN CASE prim = "sphere1" -> [h1 EXCEPT !.shader = 3]
       [] prim = "sphere2" -> [h1 EXCEPT !.ior1_over_ior2 = <<2, 3>>, !.shader = 4]
       [] OTHER -> [h1 EXCEPT !.diffuse = mat.diffuse, !.emission = mat.emission,
                              !.shader = uniforms.triangle_shader]

\* else { res += bg.rgb; break; }
W06Miss ==
  /\ prog = "week06/part1"
  /\ pc = "intersect"
  /\ res' = VAdd(res, bgcolor)
  /\ pc' = "done"
  /\ terminal' = "miss"
  /\ nIntersect' = nIntersect + 1
  /\ last' = [branch |-> "miss", xi |-> R(0)]
  /\ UNCHANGED <<prog, uniforms, r, hit, loop_i, nLit>>

W06Hit(prim, n, mat) ==
  /\ prog = "week06/part1"
  /\ pc = "intersect"
  /\ hit' = intersect_scene_hit_w06(hit, prim, n, mat)
  /\ r' = [r EXCEPT !.tmax = hit'.distance]
  /\ pc' = "shade"
  /\ nIntersect' = nIntersect + 1
  /\ UNCHANGED <<prog, uniforms, res, loop_i, terminal, last, nLit>>

\* res += shade(&r, &hit); if (hit.has_hit) { break; } and the i++, i < 10
W06Shade(in) ==
  /\ prog = "week06/part1"
  /\ pc = "shade"
  /\ \E s \in {shade_w06(r, hit, in)} :
     LET left == LoopBreaks(s.hit.has_hit)
     IN /\ res' = VAdd(res, s.value)
        /\ r' = s.r
        /\ hit' = s.hit
        /\ last' = [branch |-> s.branch, xi |-> R(0)]
        /\ nLit' = IF Lit(prog, in) THEN nLit + 1 ELSE nLit
        /\ loop_i' = IF left THEN loop_i ELSE loop_i + 1
        /\ pc' = IF left \/ loop_i' >= MeshBounces THEN "done" ELSE "intersect"
        /\ terminal' = Terminal(s.branch, loop_i', MeshBounces)
  /\ UNCHANGED <<prog, uniforms, nIntersect>>


(***************************************************************************)
(* part_002, the progressive renderer of a mesh: HitInfo has a throughput  *)
(* that default_hitinfo sets to vec3f(0.0) and that no line reads; the     *)
(* loop is left after the first shader call.  One path of one subpixel.    *)
(***************************************************************************)
default_hitinfo_p2 ==
  [has_hit |-> FALSE, distance |-> R(0), position |-> <<R(0), R(0)>>,
   normal |-> <<R(0), R(0)>>, diffuse |-> V3(R(0)), emission |-> V3(R(0)),
   ior1_over_ior2 |-> R(0), shader |-> 0, emit |-> TRUE,
   throughput |-> V3(R(0))]

\* in.light.L_i is in units of Pi; both cosines are clamped
lambertian_p2(ray, h, in) ==
  [r |-> ray, hit |-> h,
   value |-> IF ~in.V THEN h.emission
             ELSE VAdd(VScale(VMul(h.diffuse, in.light.L_i),
                              RMax(in.light.cos, R(0))),
                       h.emission),
   branch |-> "lambertian"]

shade_p2(ray, h, in) ==
  CASE h.shader = 1 -> lambertian_p2(ray, h, in)
    [] OTHER -> [r |-> ray, hit |-> h, value |-> VAdd(h.diffuse, h.emission),
                 branch |-> "default"]

\* let bgcolor = select(vec4f(0, 0, 0, 1), cornflower, enable_background == 1u)
\* and else { result += bgcolor.rgb; break; }
P2Miss(enable_background) ==
  /\ prog = "part_002"
  /\ pc = "intersect"
  /\ res' = VAdd(res, IF enable_background = 1 THEN bgcolor ELSE V3(R(0)))
  /\ pc' = "done"
  /\ terminal' = "miss"
  /\ nIntersect' = nIntersect + 1
  /\ last' = [branch |-> "miss", xi |-> R(0)]
  /\ UNCHANGED <<prog, uniforms, r, hit, loop_i, nLit>>

\* intersect_scene: the mesh only
P2Hit(n, mat) ==
  /\ prog = "part_002"
  /\ pc = "intersect"
  /\ hit' = [hit EXCEPT !.has_hit = TRUE, !.distance = HitDistance,
                        !.position = HitPosition, !.normal = n,
                        !.diffuse = mat.diffuse, !.emission = mat.emission,
                        !.shader = uniforms.triangle_shader]
  /\ r' = [r EXCEPT !.tmax = hit'.distance]
  /\ pc' = "shade"
  /\ nIntersect' = nIntersect + 1
  /\ UNCHANGED <<prog, uniforms, res, loop_i, terminal, last, nLit>>

\* result += shade(&r, &hit, &t); if (hit.has_hit) { break; } and the i++,
\* i < 10
P2Shade(in) ==
  /\ prog = "part_002"
  /\ pc = "shade"
  /\ \E s \in {shade_p2(r, hit, in)} :
     LET left == LoopBreaks(s.hit.has_hit)
     IN /\ res' = VAdd(res, s.value)
        /\ r' = s.r
        /\ hit' = s.hit
        /\ last' = [branch |-> s.branch, xi |-> R(0)]
        /\ nLit' = IF Lit(prog, in) THEN nLit + 1 ELSE nLit
        /\ loop_i' = IF left THEN loop_i ELSE loop_i + 1
        /\ pc' = IF left \/ loop_i' >= MeshBounces THEN "done" ELSE "intersect"
        /\ terminal' = Terminal(s.branch, loop_i', MeshBounces)
  /\ UNCHANGED <<prog, uniforms, nIntersect>>

(***************************************************************************)
(* part_000, the analytic scenes: the shader of lines 100-383 (plane,      *)
(* triangle, sphere; Ray.ior) and the shader of lines 660-960 (hit_update, *)
(* Phong and glossy).  The EPS offsets of the new origins are left out.    *)
(***************************************************************************)
n_glass == <<3, 2>>

init_hit(ray) ==
  [has_hit |-> FALSE, dist |-> ray.tmax, position |-> <<R(0), R(0)>>,
   normal |-> <<R(0), R(0)>>, rho_a |-> V3(R(0)), rho_d |-> V3(R(0)),
   rho_s |-> V3(R(0)), shininess |-> R(0), ior |-> R(0), shader |-> 0,
   eta |-> R(1), continue_ray |-> FALSE]

\* base_col of the plane, the triangle and the sphere
BaseColour(prim) ==
  CASE prim = "plane" -> <<<<1, 10>>, <<7, 10>>, R(0)>>
    [] prim = "triangle" -> <<<<2, 5>>, <<3, 10>>, <<1, 5>>>>
    [] OTHER -> V3(<<1, 5>>)

\* intersect_scene of lines 219-236 when prim is the nearest primitive
intersect_scene_1(ray, prim, n) ==
  [init_hit(ray) EXCEPT
     !.has_hit = TRUE, !.dist = HitDistance, !.position = HitPosition,
     !.normal = n, !.rho_a = VScale(BaseColour(prim), <<1, 10>>),
     !.rho_d = VScale(BaseColour(prim), <<9, 10>>),
     !.shader = IF prim = "sphere" THEN uniforms.sphere_shader
                ELSE uniforms.matt_shader]

shade_base(h) == VAdd(h.rho_a, h.rho_d)

\* in.V is !is_occluded(shadow_ray) and in.light the point light with
\* dot(hit.normal, L.omega); Li is in units of PI
shade_lambert(h, in) ==
  IF in.V
  THEN VAdd(h.rho_a, VScale(VMul(h.rho_d, in.light.L_i), RMax(R(0), in.light.cos)))
  ELSE h.rho_a

shade_mirror(ray, h) ==
  [r |-> [ray EXCEPT !.origin = h.position,
                     !.direction = reflect(ray.direction, h.normal),
                     !.tmin = <<1, 10000>>, !.tmax = Sci(1, 32)],
   hit |-> [h EXCEPT !.continue_ray = TRUE], value |-> V3(R(0)),
   branch |-> "mirror"]

\* shade_refract of lines 297-328 (n2 is n_glass) and of lines 877-903 (n2 is
\* hit.ior): in.wt stands for eta * d + (eta * cos_i - sqrt(k_val)) * N, which
\* is d itself when eta is 1
shade_refract(ray, h, n2_glass, in) ==
  LET inside == RGt(dot(ray.direction, h.normal), R(0))
      N == IF inside THEN Neg2(h.normal) ELSE h.normal
      n1 == ray.ior
      n2 == IF inside THEN R(1) ELSE n2_glass
      eta == RDiv(n1, n2)
      cos_i == dot(Neg2(ray.direction), N)
      k_val == RSub(R(1), RMul(RMul(eta, eta), RSub(R(1), RMul(cos_i, cos_i))))
      tir == RLt(k_val, R(0))
      r1 == IF tir THEN [ray EXCEPT !.direction = reflect(ray.direction, N)]
            ELSE [ray EXCEPT !.direction = IF eta = R(1) THEN @ ELSE in.wt,
                             !.ior = n2]
  IN [r |-> [r1 EXCEPT !.origin = h.position, !.tmin = <<1, 10000>>,
                       !.tmax = Sci(1, 32)],
      hit |-> [h EXCEPT !.eta = eta, !.continue_ray = TRUE],
      value |-> V3(R(0)), branch |-> IF tir THEN "mirror" ELSE "refracted"]

\* shade of lines 331-339
shade_1(ray, h, in) ==
  CASE h.shader = 0 -> [r |-> ray, hit |-> h, value |-> shade_base(h),
                        branch |-> "base"]
    [] h.shader = 1 -> [r |-> ray, hit |-> h, value |-> shade_lambert(h, in),
                        branch |-> "lambert"]
    [] h.shader = 2 -> shade_mirror(ray, h)
    [] h.shader = 3 -> shade_refract(ray, h, n_glass, in)
    [] OTHER -> [r |-> ray, hit |-> h, value |-> V3(R(0)), branch |-> "default"]

\* intersect_scene of lines 777-807 when prim is the nearest primitive
intersect_scene_3(ray, prim, n) ==
  [init_hit(ray) EXCEPT
     !.has_hit = TRUE, !.dist = HitDistance, !.position = HitPosition,
     !.normal = n,
     !.rho_a = IF prim = "sphere" THEN V3(R(0))
               ELSE VScale(BaseColour(prim), <<1, 10>>),
     !.rho_d = IF prim = "sphere" THEN V3(R(0))
               ELSE VScale(BaseColour(prim), <<9, 10>>),
     !.rho_s = IF prim = "sphere" THEN V3(<<1, 10>>) ELSE V3(R(0)),
     !.shininess = IF prim = "sphere" THEN R(42) ELSE R(0),
     !.ior = IF prim = "sphere" THEN <<3, 2>> ELSE R(1),
     !.shader = IF prim = "sphere" THEN uniforms.sphere_shader
                ELSE uniforms.matt_shader]

\* shade_phong of lines 851-866, rho_s * Li in units of PI as well
shade_phong(h, in) ==
  IF in.V
  THEN VAdd(VAdd(h.rho_a,
                 VScale(VMul(h.rho_d, in.light.L_i), RMax(R(0), in.light.cos))),
            VScale(VMul(h.rho_s, in.light.L_i),
                   pow(RMax(R(0), in.light.r_dot_v), h.shininess)))
  ELSE h.rho_a

shade_glossy(ray, h, in) ==
  [shade_refract(ray, h, h.ior, in) EXCEPT !.value = shade_phong(h, in),
                                            !.branch = "glossy"]

\* shade of lines 907-917
shade_3(ray, h, in) ==
  CASE h.shader = 0 -> [r |-> ray, hit |-> h, value |-> shade_base(h),
                        branch |-> "base"]
    [] h.shader = 1 -> [r |-> ray, hit |-> h, value |-> shade_lambert(h, in),
                        branch |-> "lambert"]
    [] h.shader = 2 -> [r |-> ray, hit |-> h, value |-> shade_phong(h, in),
                        branch |-> "phong"]
    [] h.shader = 3 -> shade_mirror(ray, h)
    [] h.shader = 4 -> shade_refract(ray, h, h.ior, in)
    [] h.shader = 5 -> shade_glossy(ray, h, in)
    [] OTHER -> [r |-> ray, hit |-> h, value |-> V3(R(0)), branch |-> "default"]

\* final_color += bg_color; break;
AnalyticMiss ==
  /\ prog \in AnalyticPrograms
  /\ pc = "intersect"
  /\ res' = VAdd(res, bgcolor)
  /\ pc' = "done"
  /\ terminal' = "miss"
  /\ nIntersect' = nIntersect + 1
  /\ last' = [branch |-> "miss", xi |-> R(0)]
  /\ UNCHANGED <<prog, uniforms, r, hit, loop_i, nLit>>

\* the sphere test of lines 170-188 takes the nearer root only, so the normal
\* of a sphere hit of the first shader faces the ray
AnalyticHit(prim, n) ==
  /\ prog \in AnalyticPrograms
  /\ pc = "intersect"
  /\ prog = "part_000/1" /\ prim = "sphere" => RLt(dot(r.direction, n), R(0))
  /\ hit' = IF prog = "part_000/1" THEN intersect_scene_1(r, prim, n)
            ELSE intersect_scene_3(r, prim, n)
  /\ r' = IF prog = "part_000/1" THEN r ELSE [r EXCEPT !.tmax = hit'.dist]
  /\ pc' = "shade"
  /\ nIntersect' = nIntersect + 1
  /\ UNCHANGED <<prog, uniforms, res, loop_i, terminal, last, nLit>>

\* final_color += shade(...); if (!hit.continue_ray) { break; } and the i++,
\* i < MAX_BOUNCES; hit is a variable of the loop body
AnalyticShade(in) ==
  /\ prog \in AnalyticPrograms
  /\ pc = "shade"
  /\ \E s \in {IF prog = "part_000/1" THEN shade_1(r, hit, in)
                ELSE shade_3(r, hit, in)} :
     LET left == LoopBreaks(~s.hit.continue_ray)
     IN /\ res' = VAdd(res, s.value)
        /\ r' = s.r
        /\ hit' = s.hit
        /\ last' = [branch |-> s.branch, xi |-> R(0)]
        /\ nLit' = IF Lit(prog, in) THEN nLit + 1 ELSE nLit
        /\ loop_i' = IF left THEN loop_i ELSE loop_i + 1
        /\ pc' = IF left \/ loop_i' >= MAX_BOUNCES THEN "done" ELSE "intersect"
        /\ terminal' = Terminal(s.branch, loop_i', MAX_BOUNCES)
  /\ UNCHANGED <<prog, uniforms, nIntersect>>


\* the uniforms a frame may run with
Uniforms(p) ==
  CASE p = "part_000/1" ->
         [triangle_shader : {0}, matt_shader : {1, 2}, sphere_shader : {3}]
    [] p = "part_000/3" ->
         [triangle_shader : {0}, matt_shader : {0, 3}, sphere_shader : {4, 5}]
    [] OTHER ->
         [triangle_shader : ShaderIndices, matt_shader : {0}, sphere_shader : {0}]

\* the camera ray with direction d
CameraRay(p, d) ==
  IF p \in {"part_000/1", "part_000/3"}
  THEN [origin |-> <<R(0), R(0)>>, direction |-> d, tmin |-> <<1, 1000>>,
        tmax |-> Sci(1, 32), ior |-> R(1)]
  ELSE [origin |-> <<R(0), R(0)>>, direction |-> d, tmin |-> <<1, 10000>>,
        tmax |-> Sci(1, 10)]

PathInit ==
  /\ prog \in Programs
  /\ uniforms \in Uniforms(prog)
  /\ \E d \in Dirs : r = CameraRay(prog, d)
  /\ hit = IF prog = "week08/part3" THEN default_hitinfo
           ELSE IF prog = "week06/part1" THEN default_hitinfo_w06
           ELSE IF prog = "part_002" THEN default_hitinfo_p2
           ELSE init_hit(r)
  /\ res = V3(R(0))
  /\ loop_i = 0
  /\ pc = "intersect"
  /\ terminal = "active"
  /\ nIntersect = 0
  /\ last = [branch |-> "none", xi |-> R(0)]
  /\ nLit = 0

(***************************************************************************)
(* intersect_scene (SpecScene), one step per primitive tested, in the      *)
(* order of the code, on the variables prog, uniforms, r, hit and pc of    *)
(* the bounce loop.  Points and directions are vec3f of rationals; every   *)
(* ray of the model passes through the centre of a sphere or misses the    *)
(* sphere, so that every square root taken is rational.  The EPS offsets   *)
(* of the origins of bounced rays are left out.                            *)
(***************************************************************************)
VARIABLES
  entry         \* history: the ray and the mesh intersect_scene was called with

\* vec3f(x, y, z) / d
Vec(x, y, z, d) == <<Norm(x, d), Norm(y, d), Norm(z, d)>>

VSub(a, b) == <<RSub(a[1], b[1]), RSub(a[2], b[2]), RSub(a[3], b[3])>>

dot3(a, b) == RAdd(RAdd(RMul(a[1], b[1]), RMul(a[2], b[2])), RMul(a[3], b[3]))

cross(a, b) ==
  <<RSub(RMul(a[2], b[3]), RMul(a[3], b[2])),
    RSub(RMul(a[3], b[1]), RMul(a[1], b[3])),
    RSub(RMul(a[1], b[2]), RMul(a[2], b[1]))>>

\* the square root of the square of a rational
sqrt(x) ==
  LET root(k) == CHOOSE s \in 0 .. k : s * s = k
  IN <<root(x[1]), root(x[2])>>

normalize(v) == VDiv(v, sqrt(dot3(v, v)))

\* 1e-8
Tiny == <<1, 100000000>>

\* t <= bound and t < bound, for a bound that may be 1e10 or 1e32
LeBound(t, bound) == IF Len(bound) = 3 THEN ~IsNaN(t) ELSE RLe(t, bound)

LtBound(t, bound) == IF Len(bound) = 3 THEN ~IsNaN(t) ELSE RLt(t, bound)

\* the t of intersect_plane; NaN where the code does not compute one
plane_t(ray, p0, n) ==
  LET denom == dot3(ray.direction, n)
  IN IF RGt(RAbs(denom), Tiny)
     THEN RDiv(dot3(VSub(p0, ray.origin), n), denom)
     ELSE NaN

\* the t of intersect_triangle (Moller-Trumbore); NaN where the code returns
\* before it computes one
triangle_t(ray, v0, v1, v2) ==
  LET test(a, u, v, t) ==
        IF RLt(RAbs(a), Tiny) THEN NaN
        ELSE IF RLt(u, R(0)) \/ RGt(u, R(1)) THEN NaN
        ELSE IF RLt(v, R(0)) \/ RGt(RAdd(u, v), R(1)) THEN NaN
        ELSE t
      solve(e2, a, f, s_h, q) ==
        test(a, RMul(f, s_h), RMul(f, dot3(ray.direction, q)), RMul(f, dot3(e2, q)))
      with(e1, e2, hh, s) ==
        solve(e2, dot3(e1, hh), RDiv(R(1), dot3(e1, hh)), dot3(s, hh), cross(s, e1))
      edges(e1, e2) == with(e1, e2, cross(ray.direction, e2), VSub(ray.origin, v0))
  IN edges(VSub(v1, v0), VSub(v2, v0))

\* -b - sqrt(disc) and -b + sqrt(disc); NaN when disc is below least
sphere_roots(ray, c, radius, least) ==
  LET roots(b, s) == <<RSub(RNeg(b), s), RAdd(RNeg(b), s)>>
      solve(b, disc) ==
        IF RGe(disc, least) THEN roots(b, sqrt(disc)) ELSE <<NaN, NaN>>
      quadratic(b, cc) == solve(b, RSub(RMul(b, b), cc))
      from(oc) == quadratic(dot3(oc, ray.direction),
                            RSub(dot3(oc, oc), RMul(radius, radius)))
  IN from(VSub(ray.origin, c))

\* the analytic scene of week01/part1 and part_000
PlaneNormal == Vec(0, 1, 0, 1)
TriangleV == <<Vec(-2, 1, 9, 10), Vec(2, 1, 9, 10), Vec(-2, 1, -1, 10)>>
SphereCentre == Vec(0, 5, 0, 10)
SphereRadius == <<3, 10>>

\* the two spheres of week08/part3 and the bounding box of its mesh (the mesh
\* is loaded from a file that is not part of the repository)
Sphere1Centre == Vec(420, 90, 370, 1)
Sphere2Centre == Vec(130, 90, 250, 1)
aabb == [min |-> Vec(0, 0, 0, 1), max |-> Vec(556, 549, 560, 1)]

ScenePrograms == {"week01/part1", "part_000/1", "part_000/3", "week08/part3"}

\* intersect_sphere without the tests against r.tmin and r.tmax
intersect_sphere_anywhere(p, ray, h, c, radius) ==
  LET of(roots) == roots[1]
  IN of(sphere_roots(ray, c, radius, IF p = "week08/part3" THEN Tiny ELSE R(0)))

\* the t at which the code of program p accepts the sphere, NaN if it does not
\* (lines 133-150 of week01/part1; lines 170-188 and 758-774 of part_000;
\* lines 197-206 of week08/part3, which the caller's r.tmax = hit.distance
\* follows)
intersect_sphere(p, ray, h, c, radius) ==
  LET out(t) == RLt(t, ray.tmin) \/ ~LeBound(t, ray.tmax)
      accept(t, ok) == IF ok THEN t ELSE NaN
      choose(t1, t2) ==
        CASE p = "week01/part1" -> accept(t1, ~out(t1))
          [] p = "part_000/1" -> accept(t1, ~out(t1) /\ LtBound(t1, h.dist))
          [] p = "part_000/3" ->
               IF RLt(t1, ray.tmin)
               THEN accept(t2, ~out(t2) /\ LtBound(t2, h.dist))
               ELSE accept(t1, ~out(t1) /\ LtBound(t1, h.dist))
          [] OTHER ->
               IF IsNaN(t1) THEN NaN
               ELSE IF out(t1) THEN accept(t2, ~out(t2))
               ELSE t1
      of(roots) == choose(roots[1], roots[2])
  IN of(sphere_roots(ray, c, radius, IF p = "week08/part3" THEN Tiny ELSE R(0)))

\* HitInfo(false, 0.0, vec3f(0.0)) of week01/part1 and the zero HitInfo of
\* part_000
SceneHit0(p, ray) ==
  CASE p = "week01/part1" -> [has_hit |-> FALSE, dist |-> R(0), color |-> V3(R(0))]
    [] p = "week08/part3" ->
         [default_hitinfo EXCEPT !.position = V3(R(0)), !.normal = V3(R(0))]
    [] OTHER ->
         [init_hit(ray) EXCEPT !.dist = R(0), !.position = V3(R(0)),
                               !.normal = V3(R(0))]

\* the hit written for primitive prim at distance t, n the normal the code
\* passes to normalize; mat is the material of the mesh triangle
SceneHit(p, ray, h, prim, t, n, mat) ==
  LET pos == VAdd(ray.origin, VScale(ray.direction, t))
  IN CASE p = "week01/part1" ->
            [h EXCEPT !.has_hit = TRUE, !.dist = t,
                      !.color = IF prim = "sphere" THEN V3(R(0))
                                ELSE BaseColour(prim)]
       [] p = "part_000/1" ->
            LET m == intersect_scene_1(ray, prim, normalize(n))
            IN [h EXCEPT !.has_hit = TRUE, !.dist = t, !.position = pos,
                         !.normal = m.normal, !.rho_a = m.rho_a,
                         !.rho_d = m.rho_d, !.shader = m.shader]
       [] p = "part_000/3" ->
            LET m == intersect_scene_3(ray, prim, normalize(n))
            IN [h EXCEPT !.has_hit = TRUE, !.dist = t, !.position = pos,
                         !.normal = m.normal, !.rho_a = m.rho_a,
                         !.rho_d = m.rho_d, !.rho_s = m.rho_s,
                         !.shininess = m.shininess, !.ior = m.ior,
                         !.shader = m.shader, !.continue_ray = FALSE]
       [] OTHER ->
            [intersect_scene_hit(h, prim, normalize(n), mat)
               EXCEPT !.distance = t, !.position = pos]

\* intersect_min_max taking the slab interval of the box for the new interval
intersect_min_max_slab(ray) ==
  LET o == ray.origin
      d == ray.direction
      clamp(t_min, t_max) ==
        IF RGt(t_min, t_max) \/ ~LeBound(t_min, ray.tmax) \/ RLt(t_max, ray.tmin)
        THEN [inside |-> FALSE, r |-> ray]
        ELSE [inside |-> TRUE,
              r |-> [ray EXCEPT !.tmin = t_min, !.tmax = t_max]]
      slabs(p1, p2) ==
        clamp(RSub(RMax(RMax(RMin(p1[1], p2[1]), RMin(p1[2], p2[2])),
                        RMin(p1[3], p2[3])), <<1, 1000>>),
              RAdd(RMin(RMin(RMax(p1[1], p2[1]), RMax(p1[2], p2[2])),
                        RMax(p1[3], p2[3])), <<1, 1000>>))
  IN slabs(<<RDiv(RSub(aabb.min[1], o[1]), d[1]),
             RDiv(RSub(aabb.min[2], o[2]), d[2]),
             RDiv(RSub(aabb.min[3], o[3]), d[3])>>,
           <<RDiv(RSub(aabb.max[1], o[1]), d[1]),
             RDiv(RSub(aabb.max[2], o[2]), d[2]),
             RDiv(RSub(aabb.max[3], o[3]), d[3])>>)

\* intersect_min_max of week08/part3 and of week06/part2 with box for the
\* uniform aabb; r.tmax may be the 1e10 of a camera ray, which is above every
\* t of the model
intersect_box(ray, box) ==
  LET o == ray.origin
      d == ray.direction
      clamp(t_min, t_max) ==
        IF RGt(t_min, t_max) \/ ~LeBound(t_min, ray.tmax) \/ RLt(t_max, ray.tmin)
        THEN [inside |-> FALSE, r |-> ray]
        ELSE [inside |-> TRUE,
              r |-> [ray EXCEPT !.tmin = RMax(t_min, @),
                                !.tmax = IF LeBound(t_max, @) THEN t_max ELSE @]]
      slabs(p1, p2) ==
        clamp(RSub(RMax(RMax(RMin(p1[1], p2[1]), RMin(p1[2], p2[2])),
                        RMin(p1[3], p2[3])), <<1, 1000>>),
              RAdd(RMin(RMin(RMax(p1[1], p2[1]), RMax(p1[2], p2[2])),
                        RMax(p1[3], p2[3])), <<1, 1000>>))
  IN slabs(<<RDiv(RSub(box.min[1], o[1]), d[1]),
             RDiv(RSub(box.min[2], o[2]), d[2]),
             RDiv(RSub(box.min[3], o[3]), d[3])>>,
           <<RDiv(RSub(box.max[1], o[1]), d[1]),
             RDiv(RSub(box.max[2], o[2]), d[2]),
             RDiv(RSub(box.max[3], o[3]), d[3])>>)

intersect_min_max(ray) == intersect_box(ray, aabb)

\* t >= r.tmin && t <= r.tmax, and the t < (*hit).dist of part_000
Accepts(p, ray, h, t) ==
  /\ RGe(t, ray.tmin)
  /\ LeBound(t, ray.tmax)
  /\ p \in {"part_000/1", "part_000/3"} => LtBound(t, h.dist)

NoMesh == [t |-> NaN, n |-> Vec(0, 1, 0, 1), mat |-> [diffuse |-> V3(R(0)),
                                                     emission |-> V3(R(0))]]

\* what intersect_trimesh may answer for a ray of the model: no triangle, or
\* the nearest triangle of the mesh at distance 50 or 400
MeshAnswers ==
  {NoMesh} \cup
  {[t |-> R(d), n |-> Vec(0, 1, 0, 1),
    mat |-> [diffuse |-> V3(<<1, 2>>), emission |-> V3(R(0))]] : d \in {50, 400}}

\* get_camera_ray: the eye, and three directions through the image plane
\* (to the centre of the sphere, onto the triangle, onto the plane)
SceneEye == Vec(4, 3, 4, 2)

SceneDirs == [centre |-> Vec(-2, -1, -2, 3), triangle |-> Vec(-21, -14, -18, 31),
              plane |-> Vec(-2, -3, -6, 7)]

\* the rays intersect_scene is called with: the camera rays, and for part_000
\* the rays its shaders continue with (shade_refract at the near and at the
\* far surface of the sphere for the central camera ray, shade_mirror at the
\* plane); for week08/part3 the camera ray, which misses the box, and rays of
\* later bounces
SceneRays(p) ==
  CASE p = "week01/part1" ->
         {[origin |-> SceneEye, direction |-> SceneDirs[k], tmin |-> <<1, 1000>>,
           tmax |-> R(1000)] : k \in DOMAIN SceneDirs}
    [] p \in {"part_000/1", "part_000/3"} ->
         {[origin |-> SceneEye, direction |-> SceneDirs[k], tmin |-> <<1, 1000>>,
           tmax |-> Sci(1, 32), ior |-> R(1)] : k \in DOMAIN SceneDirs}
         \cup
         {[origin |-> Vec(1, 3, 1, 5), direction |-> SceneDirs.centre,
           tmin |-> <<1, 10000>>, tmax |-> Sci(1, 32), ior |-> n_glass],
          [origin |-> Vec(-1, 2, -1, 5), direction |-> SceneDirs.centre,
           tmin |-> <<1, 10000>>, tmax |-> Sci(1, 32), ior |-> R(1)],
          [origin |-> Vec(1, 0, -1, 1), direction |-> Vec(-2, 3, -6, 7),
           tmin |-> <<1, 10000>>, tmax |-> Sci(1, 32), ior |-> R(1)]}
    [] OTHER ->
         {[origin |-> o, direction |-> Vec(2, 1, 2, 3), tmin |-> <<1, 1000>>,
           tmax |-> R(1000000)] :
            o \in {Vec(277, 275, -570, 1), Vec(0, 25, 120, 1),
                   Vec(70, 60, 190, 1), Vec(240, 0, 190, 1)}}

\* the hit main_fs passes in: a fresh one, or the one of the bounce before
SceneHits(p, ray) ==
  CASE p = "week08/part3" ->
         {SceneHit0(p, ray),
          [SceneHit(p, ray, SceneHit0(p, ray), "sphere2", R(105),
                    Vec(0, 1, 0, 1), NoMesh.mat) EXCEPT !.has_hit = FALSE]}
    [] p = "part_000/3" ->
         {SceneHit0(p, ray),
          [SceneHit(p, ray, SceneHit0(p, ray), "sphere", <<27, 10>>,
                    Vec(0, 1, 0, 1), NoMesh.mat) EXCEPT !.continue_ray = TRUE]}
    [] OTHER -> {SceneHit0(p, ray)}

SceneInit ==
  /\ prog \in ScenePrograms
  /\ uniforms \in Uniforms(prog)
  /\ r \in SceneRays(prog)
  /\ hit \in SceneHits(prog, r)
  /\ \E mesh \in MeshAnswers :
       /\ prog # "week08/part3" \/ r.origin = Vec(277, 275, -570, 1) => mesh = NoMesh
       /\ entry = [r |-> r, mesh |-> mesh]
  /\ pc = "enter"

\* the first lines of intersect_scene: init_hit, or has_hit = false and
\* dist = tmax, or intersect_min_max
SceneEnter ==
  /\ prog \in ScenePrograms
  /\ pc = "enter"
  /\ CASE prog = "week01/part1" ->
            /\ hit' = [hit EXCEPT !.has_hit = FALSE]
            /\ pc' = "plane"
            /\ UNCHANGED r
       [] prog = "part_000/1" ->
            /\ hit' = [init_hit(r) EXCEPT !.position = V3(R(0)),
                                          !.normal = V3(R(0))]
            /\ pc' = "plane"
            /\ UNCHANGED r
       [] prog = "part_000/3" ->
            /\ hit' = [hit EXCEPT !.has_hit = FALSE, !.dist = r.tmax]
            /\ pc' = "plane"
            /\ UNCHANGED r
       [] OTHER ->
            /\ \E box \in {intersect_min_max(r)} :
                 /\ r' = box.r
                 /\ pc' = IF box.inside THEN "sphere1" ELSE "done"
            /\ UNCHANGED hit
  /\ UNCHANGED <<prog, uniforms, entry>>

\* one primitive of the analytic scene: t is what its intersection function
\* computes, n its normal; week01/part1 narrows r.tmax after a hit, and the
\* third shader of part_000 does at the end
SceneTest(at, prim, t, n, then) ==
  /\ prog \in ScenePrograms \ {"week08/part3"}
  /\ pc = at
  /\ LET found == Accepts(prog, r, hit, t)
         h == IF found THEN SceneHit(prog, r, hit, prim, t, n, NoMesh.mat)
              ELSE hit
     IN /\ hit' = h
        /\ r' = IF \/ prog = "week01/part1" /\ found
                   \/ prog = "part_000/3" /\ then = "done" /\ h.has_hit
                THEN [r EXCEPT !.tmax = h.dist]
                ELSE r
  /\ pc' = then
  /\ UNCHANGED <<prog, uniforms, entry>>

ScenePlane ==
  SceneTest("plane", "plane", plane_t(r, V3(R(0)), PlaneNormal), PlaneNormal,
            "triangle")

SceneTriangle ==
  SceneTest("triangle", "triangle",
            triangle_t(r, TriangleV[1], TriangleV[2], TriangleV[3]),
            cross(VSub(TriangleV[2], TriangleV[1]), VSub(TriangleV[3], TriangleV[1])),
            "sphere")

SceneSphere ==
  /\ prog \in ScenePrograms \ {"week08/part3"}
  /\ pc = "sphere"
  /\ \E t \in {intersect_sphere(prog, r, hit, SphereCentre, SphereRadius)} :
       SceneTest("sphere", "sphere", t,
                 VSub(VAdd(r.origin, VScale(r.direction, t)), SphereCentre), "done")

\* if (intersect_sphere(*r, hit, center, 90.0)) { ...; r.tmax = hit.distance; }
SceneSphere08(at, prim, centre, then) ==
  /\ prog = "week08/part3"
  /\ pc = at
  /\ \E t \in {intersect_sphere(prog, r, hit, centre, R(90))} :
       IF IsNaN(t) THEN UNCHANGED <<r, hit>>
       ELSE /\ hit' = SceneHit(prog, r, hit, prim, t,
                               VSub(VAdd(r.origin, VScale(r.direction, t)), centre),
                               NoMesh.mat)
            /\ r' = [r EXCEPT !.tmax = t]
  /\ pc' = then
  /\ UNCHANGED <<prog, uniforms, entry>>

SceneSphere1 == SceneSphere08("sphere1", "sphere1", Sphere1Centre, "sphere2")

SceneSphere2 == SceneSphere08("sphere2", "sphere2", Sphere2Centre, "trimesh")

\* if (intersect_trimesh(r, hit)) { ... }: the mesh answers with its nearest
\* triangle within [r.tmin, r.tmax]
SceneTrimesh ==
  /\ prog = "week08/part3"
  /\ pc = "trimesh"
  /\ LET m == entry.mesh
     IN IF RGe(m.t, r.tmin) /\ RLe(m.t, r.tmax)
        THEN /\ hit' = SceneHit(prog, r, hit, "mesh", m.t, m.n, m.mat)
             /\ r' = [r EXCEPT !.tmax = m.t]
        ELSE UNCHANGED <<r, hit>>
  /\ pc' = "done"
  /\ UNCHANGED <<prog, uniforms, entry>>

(***************************************************************************)
(* intersect_trimesh (SpecBsp): the BSP traversal of week06/part2 and      *)
(* week08/part3, one step per iteration of its loop, on the variables r,   *)
(* hit and loop_i, next to the linear scan of week06/part1 over the same   *)
(* mesh.  The arrays bspTree, bspPlanes and treeIds come from a builder    *)
(* that is not part of the repository; the tree here is built by hand over *)
(* five triangles in the box [0, 4]^3 and lists every triangle in each     *)
(* leaf whose volume it touches.  Triangles 1 and 4 share an edge.  The    *)
(* interpolated normal of a hit is left out.                               *)
(***************************************************************************)
VARIABLES
  node,         \* var node
  branch_lvl,   \* var branch_lvl
  branch_node,  \* var<private> branch_node: array<vec2u, MAX_LEVEL>
  branch_ray    \* var<private> branch_ray: array<vec2f, MAX_LEVEL>

bspVars == <<node, branch_lvl, branch_node, branch_ray>>

MAX_LEVEL == 20
BSP_LEAF == 3

BspPrograms == {"week06/part2", "week08/part3"}

\* meshFaces and vPositions: the three corners of each triangle
meshFaces ==
  <<<<Vec(0, 3, 0, 1), Vec(2, 3, 0, 1), Vec(0, 3, 4, 1)>>,
    <<Vec(2, 1, 0, 1), Vec(4, 1, 0, 1), Vec(2, 1, 4, 1)>>,
    <<Vec(2, 3, 0, 1), Vec(4, 3, 0, 1), Vec(2, 3, 4, 1)>>,
    <<Vec(0, 4, 0, 1), Vec(4, 4, 0, 1), Vec(0, 4, 4, 1)>>,
    <<Vec(4, 1, 0, 1), Vec(4, 1, 4, 1), Vec(2, 1, 4, 1)>>>>

\* bspTree[node]: .x is axis_leaf | count << 2, .y the offset into treeIds,
\* .z and .w the children below and above the plane; nodes are numbered from 0
bspTree ==
  [n \in 0 .. 4 |->
     CASE n = 0 -> [axis_leaf |-> 0, count |-> 0, y |-> 0, z |-> 1, w |-> 2]
       [] n = 1 -> [axis_leaf |-> BSP_LEAF, count |-> 2, y |-> 0, z |-> 0, w |-> 0]
       [] n = 2 -> [axis_leaf |-> 1, count |-> 0, y |-> 0, z |-> 3, w |-> 4]
       [] n = 3 -> [axis_leaf |-> BSP_LEAF, count |-> 2, y |-> 2, z |-> 0, w |-> 0]
       [] OTHER -> [axis_leaf |-> BSP_LEAF, count |-> 2, y |-> 4, z |-> 0, w |-> 0]]

bspPlanes == [n \in 0 .. 4 |-> IF n \in {0, 2} THEN R(2) ELSE R(0)]

\* treeIds[id + j], the triangles of the leaves (numbered from 0)
treeIds == [k \in 0 .. 5 |-> <<0, 3, 1, 4, 2, 3>>[k + 1]]

\* intersect_triangle of the mesh shaders: least is 1e-8 in week06/part2 and
\* week08/part3 and 0.0001 in week06/part1
intersect_triangle(ray, h, i, least) ==
  LET v0 == meshFaces[i + 1][1]
      test(q, t, beta, gamma) ==
        IF RLt(RAbs(q), least) THEN [found |-> FALSE, hit |-> h]
        ELSE IF RLt(t, ray.tmin) \/ RGt(t, ray.tmax) THEN [found |-> FALSE, hit |-> h]
        ELSE IF RLt(beta, R(0)) \/ RLt(gamma, R(0)) \/ RGt(RAdd(beta, gamma), R(1))
        THEN [found |-> FALSE, hit |-> h]
        ELSE [found |-> TRUE,
              hit |-> [h EXCEPT !.has_hit = TRUE, !.distance = t,
                                !.position = VAdd(ray.origin,
                                                  VScale(ray.direction, t))]]
      solve(e0, e1, n, q, a, b_p) ==
        test(q, RDiv(dot3(a, n), q), RDiv(dot3(b_p, e1), q),
             RNeg(RDiv(dot3(b_p, e0), q)))
      with(e0, e1, n, a) ==
        solve(e0, e1, n, dot3(ray.direction, n), a, cross(a, ray.direction))
      edges(e0, e1) == with(e0, e1, cross(e0, e1), VSub(v0, ray.origin))
  IN edges(VSub(meshFaces[i + 1][2], v0), VSub(meshFaces[i + 1][3], v0))

\* the loop over the count triangles of a leaf, from its j-th on
RECURSIVE LeafScan(_, _, _, _, _)
LeafScan(ray, h, found, leaf, j) ==
  IF j >= leaf.count THEN [r |-> ray, hit |-> h, found |-> found]
  ELSE LET idx == treeIds[leaf.y + j]
           s == intersect_triangle(ray, h, idx, Tiny)
       IN IF s.found
          THEN LeafScan([ray EXCEPT !.tmax = s.hit.distance],
                        [s.hit EXCEPT !.triangle_idx = idx], TRUE, leaf, j + 1)
          ELSE LeafScan(ray, h, found, leaf, j + 1)

\* intersect_scene of week06/part1: the loop over all triangles, from the
\* i-th on (the material fields it copies are left out)
RECURSIVE intersect_scene_w06(_, _, _)
intersect_scene_w06(ray, h, i) ==
  IF i >= Len(meshFaces) THEN h
  ELSE LET s == intersect_triangle(ray, h, i, <<1, 10000>>)
       IN IF s.found
          THEN intersect_scene_w06([ray EXCEPT !.tmax = s.hit.distance], s.hit, i + 1)
          ELSE intersect_scene_w06(ray, h, i + 1)

BspHit0 ==
  [has_hit |-> FALSE, distance |-> R(0), position |-> V3(R(0)), triangle_idx |-> 0]

\* the rays handed to intersect_trimesh: origins on the floor of the box on
\* either side of the first split plane and below the edge that triangles 1
\* and 4 share, going up, straight or leaning to either side, by a lot or by
\* less than 1e-8; r.tmax beyond the box or short
BspRays ==
  {[origin |-> o, direction |-> d, tmin |-> <<1, 1000>>, tmax |-> tmax] :
     o \in {Vec(1, 0, 1, 1), Vec(3, 0, 1, 1), Vec(7, 0, 2, 2)},
     d \in {Vec(0, 1, 0, 1), Vec(3, 4, 0, 5), Vec(-3, 4, 0, 5),
            <<<<1, 200000000>>, R(1), R(0)>>, <<<<-1, 200000000>>, R(1), R(0)>>},
     tmax \in {R(100), <<5, 2>>}}

BspInit ==
  /\ prog \in BspPrograms
  /\ r \in BspRays
  /\ entry = [r |-> r, mesh |-> NoMesh]
  /\ hit = BspHit0
  /\ loop_i = 0
  /\ node = 0
  /\ branch_lvl = 0
  /\ branch_node = [l \in 0 .. MAX_LEVEL - 1 |-> <<0, 0>>]
  /\ branch_ray = [l \in 0 .. MAX_LEVEL - 1 |-> <<R(0), R(0)>>]
  /\ pc = "loop"

\* the node array and the planes the traversal reads: those handed over with
\* the call, or the tree over meshFaces
Tree == IF "tree" \in DOMAIN entry THEN entry.tree ELSE bspTree

Planes == IF "planes" \in DOMAIN entry THEN entry.planes ELSE bspPlanes

\* arr[idx] = val on an array of MAX_LEVEL entries: an index past the end
\* leaves the array as it is or writes some entry of it
Store(arr, idx, val) ==
  IF idx \in DOMAIN arr THEN {[arr EXCEPT ![idx] = val]}
  ELSE {arr} \cup {[arr EXCEPT ![k] = val] : k \in DOMAIN arr}

\* a loop without the test of its counter
BspLoop_forever(i) == "loop"

\* the loop is left with return false when i <= MAX_LEVEL fails
BspLoop(i) == IF i <= MAX_LEVEL THEN "loop" ELSE "return false"

\* BspLeaf popping an empty stack (entry 0 is read for entry -1)
BspLeaf_underflow ==
  /\ prog \in BspPrograms
  /\ pc = "loop"
  /\ Tree[node].axis_leaf = BSP_LEAF
  /\ \E s \in {LeafScan(r, hit, FALSE, Tree[node], 0)} :
       /\ hit' = s.hit
       /\ IF s.found
          THEN /\ r' = s.r
               /\ pc' = "return true"
               /\ UNCHANGED <<loop_i, node, branch_lvl>>
          ELSE IF branch_lvl = 0 /\ loop_i = 0
          THEN /\ pc' = "return false"
               /\ UNCHANGED <<r, loop_i, node, branch_lvl>>
          ELSE /\ branch_lvl' = branch_lvl - 1
               /\ loop_i' = branch_node[IF branch_lvl' < 0 THEN 0 ELSE branch_lvl'][1] + 1
               /\ node' = branch_node[IF branch_lvl' < 0 THEN 0 ELSE branch_lvl'][2]
               /\ r' = [r EXCEPT !.tmin = branch_ray[IF branch_lvl' < 0 THEN 0 ELSE branch_lvl'][1],
                                 !.tmax = branch_ray[IF branch_lvl' < 0 THEN 0 ELSE branch_lvl'][2]]
               /\ pc' = BspLoop(loop_i')
  /\ UNCHANGED <<prog, entry, branch_node, branch_ray>>

\* an iteration at a leaf
BspLeaf ==
  /\ prog \in BspPrograms
  /\ pc = "loop"
  /\ Tree[node].axis_leaf = BSP_LEAF
  /\ \E s \in {LeafScan(r, hit, FALSE, Tree[node], 0)} :
       /\ hit' = s.hit
       /\ IF s.found
          THEN /\ r' = s.r
               /\ pc' = "return true"
               /\ UNCHANGED <<loop_i, node, branch_lvl>>
          ELSE IF branch_lvl = 0
          THEN /\ pc' = "return false"
               /\ UNCHANGED <<r, loop_i, node, branch_lvl>>
          ELSE /\ branch_lvl' = branch_lvl - 1
               /\ loop_i' = branch_node[branch_lvl'][1] + 1
               /\ node' = branch_node[branch_lvl'][2]
               /\ r' = [r EXCEPT !.tmin = branch_ray[branch_lvl'][1],
                                 !.tmax = branch_ray[branch_lvl'][2]]
               /\ pc' = BspLoop(loop_i')
  /\ UNCHANGED <<prog, entry, branch_node, branch_ray>>

\* select(axis_dir, 1e-8, abs(axis_dir) < 1e-8)
SplitDivisor(axis_dir) == IF RLt(RAbs(axis_dir), Tiny) THEN Tiny ELSE axis_dir

\* BspInner with the whole interval of the ray kept for the far child
BspInner_whole ==
  /\ prog \in BspPrograms
  /\ pc = "loop"
  /\ Tree[node].axis_leaf # BSP_LEAF
  /\ LET tree_node == Tree[node]
         axis_dir == r.direction[tree_node.axis_leaf + 1]
         near == IF RGe(axis_dir, R(0)) THEN tree_node.z ELSE tree_node.w
         far == IF RGe(axis_dir, R(0)) THEN tree_node.w ELSE tree_node.z
         t_split == RDiv(RSub(Planes[node], r.origin[tree_node.axis_leaf + 1]),
                         SplitDivisor(axis_dir))
         beyond == IF prog = "week08/part3" THEN RGe(t_split, r.tmax)
                   ELSE RGt(t_split, r.tmax)
         before == IF prog = "week08/part3" THEN RLe(t_split, r.tmin)
                   ELSE RLt(t_split, r.tmin)
     IN IF beyond
        THEN node' = near /\ UNCHANGED <<r, branch_lvl, branch_node, branch_ray>>
        ELSE IF before
        THEN node' = far /\ UNCHANGED <<r, branch_lvl, branch_node, branch_ray>>
        ELSE /\ branch_node' \in Store(branch_node, branch_lvl, <<loop_i, far>>)
             /\ branch_ray' \in Store(branch_ray, branch_lvl, <<r.tmin, r.tmax>>)
             /\ branch_lvl' = branch_lvl + 1
             /\ r' = [r EXCEPT !.tmax = t_split]
             /\ node' = near
  /\ loop_i' = loop_i + 1
  /\ pc' = BspLoop(loop_i')
  /\ UNCHANGED <<prog, entry, hit>>

\* an iteration at an inner node: week08/part3 goes near when
\* t_split >= r.tmax and far when t_split <= r.tmin, week06/part2 when
\* t > r.tmax and when t < r.tmin
BspInner ==
  /\ prog \in BspPrograms
  /\ pc = "loop"
  /\ Tree[node].axis_leaf # BSP_LEAF
  /\ LET tree_node == Tree[node]
         axis_dir == r.direction[tree_node.axis_leaf + 1]
         near == IF RGe(axis_dir, R(0)) THEN tree_node.z ELSE tree_node.w
         far == IF RGe(axis_dir, R(0)) THEN tree_node.w ELSE tree_node.z
         t_split == RDiv(RSub(Planes[node], r.origin[tree_node.axis_leaf + 1]),
                         SplitDivisor(axis_dir))
         beyond == IF prog = "week08/part3" THEN RGe(t_split, r.tmax)
                   ELSE RGt(t_split, r.tmax)
         before == IF prog = "week08/part3" THEN RLe(t_split, r.tmin)
                   ELSE RLt(t_split, r.tmin)
     IN IF beyond
        THEN node' = near /\ UNCHANGED <<r, branch_lvl, branch_node, branch_ray>>
        ELSE IF before
        THEN node' = far /\ UNCHANGED <<r, branch_lvl, branch_node, branch_ray>>
        ELSE /\ branch_node' \in Store(branch_node, branch_lvl, <<loop_i, far>>)
             /\ branch_ray' \in Store(branch_ray, branch_lvl, <<t_split, r.tmax>>)
             /\ branch_lvl' = branch_lvl + 1
             /\ r' = [r EXCEPT !.tmax = t_split]
             /\ node' = near
  /\ loop_i' = loop_i + 1
  /\ pc' = BspLoop(loop_i')
  /\ UNCHANGED <<prog, entry, hit>>


(***************************************************************************)
(* The week-5 host loop (SpecW5): src/week05/part1/main.js.  Parameter     *)
(* changes call requestFrame, which asks for one animation frame unless    *)
(* frameId says one is already asked for; renderFrame uploads the          *)
(* parameters, refills the jitter array, draws and clears frameId.         *)
(***************************************************************************)
VARIABLES
  frameId,      \* let frameId: the handle of the request, or Null
  rafPending,   \* renderFrame callbacks the browser still has to run
  params,       \* let params (cam_const as the wheel steps taken up and down)
  currentGroup, \* let currentGroup
  uniformsData, \* what uniformBuffer holds
  jitter,       \* which indices the last compute_jitters wrote, or dropped
  drawn         \* history: the bind group and jitter entries of the last draw

w5Vars == <<frameId, rafPending, params, currentGroup, uniformsData, jitter, drawn>>

\* undefined and null are both falsy in if (!frameId)
Null == 0

\* requestAnimationFrame returns a non-zero handle
Handle == 1

MaxWheel == 1

\* the values of the two material menus
MenuValues == {1, 5}

\* new Float32Array(200)
JitterLength == 200

\* the array<vec2f> the shader sees over the same buffer
JitterEntries == JitterLength \div 2

\* params as main() builds it (lines 43-50)
W5Params == [cam_const |-> <<0, 0>>, sphereMaterial |-> 5, material |-> 1, subdivs |-> 4]

\* compute_jitters(jitter, pixelsize, subdivs): the indices it assigns; a
\* Float32Array ignores an assignment at or beyond its length
compute_jitters(subdivs) ==
  LET idx == IF subdivs < 2 THEN {0, 1}
             ELSE UNION {{(i * subdivs + j) * 2, (i * subdivs + j) * 2 + 1} :
                           i \in 0 .. subdivs - 1, j \in 0 .. subdivs - 1}
  IN [written |-> {k \in idx : k < JitterLength},
      dropped |-> {k \in idx : k >= JitterLength}]

\* the jitter entries one fragment reads: for (p = 0u; p < subpixels; p++)
\* with subpixels = subdivs * subdivs
JitterReads(subdivs) == 0 .. subdivs * subdivs - 1

\* function requestFrame() without its test of frameId
requestFrame_always == [frameId |-> Handle, rafPending |-> rafPending + 1]

\* function requestFrame()
requestFrame ==
  IF frameId = Null
  THEN [frameId |-> Handle, rafPending |-> rafPending + 1]
  ELSE [frameId |-> frameId, rafPending |-> rafPending]

\* what every listener ends with
Requested ==
  /\ frameId' = requestFrame.frameId
  /\ rafPending' = requestFrame.rafPending
  /\ UNCHANGED <<uniformsData, jitter, drawn>>

\* sphereMenu change
SphereMenuChange ==
  /\ \E v \in MenuValues \ {params.sphereMaterial} :
        params' = [params EXCEPT !.sphereMaterial = v]
  /\ UNCHANGED currentGroup
  /\ Requested

\* materialMenu change
MaterialMenuChange ==
  /\ \E v \in MenuValues \ {params.material} :
        params' = [params EXCEPT !.material = v]
  /\ UNCHANGED currentGroup
  /\ Requested

\* imageStyle change
ImageStyleChange ==
  /\ currentGroup' = 1 - currentGroup
  /\ UNCHANGED params
  /\ Requested

\* the increase listener without its test
Increase_unguarded(subdivs) == subdivs + 1

\* if (params.subdivs < 10) params.subdivs++
Increase(subdivs) == IF subdivs < 10 THEN subdivs + 1 ELSE subdivs

\* if (params.subdivs > 1) params.subdivs--
Decrease(subdivs) == IF subdivs > 1 THEN subdivs - 1 ELSE subdivs

\* increase click
IncreaseClick ==
  /\ params' = [params EXCEPT !.subdivs = Increase(@)]
  /\ UNCHANGED currentGroup
  /\ Requested

\* decrease click
DecreaseClick ==
  /\ params' = [params EXCEPT !.subdivs = Decrease(@)]
  /\ UNCHANGED currentGroup
  /\ Requested

\* canvas wheel: cam_const *= 0.95 or 1.05
W5Wheel ==
  /\ params.cam_const[1] + params.cam_const[2] < MaxWheel
  /\ \E deltaY \in {-1, 1} :
        params' = [params EXCEPT !.cam_const =
                     IF deltaY > 0 THEN <<@[1], @[2] + 1>> ELSE <<@[1] + 1, @[2]>>]
  /\ UNCHANGED currentGroup
  /\ Requested

\* updateUniforms()
updateUniforms == params

\* an animation frame runs one waiting renderFrame callback
renderFrame ==
  /\ rafPending > 0
  /\ uniformsData' = updateUniforms
  /\ jitter' = compute_jitters(params.subdivs)
  /\ drawn' = [group |-> currentGroup, reads |-> JitterReads(uniformsData'.subdivs)]
  /\ frameId' = Null
  /\ rafPending' = rafPending - 1
  /\ UNCHANGED <<params, currentGroup>>

\* main() has run: it ends with requestFrame()
W5Init ==
  /\ frameId = Handle
  /\ rafPending = 1
  /\ params = W5Params
  /\ currentGroup = 1
  /\ uniformsData = W5Params
  /\ jitter = [written |-> {}, dropped |-> {}]
  /\ drawn = [group |-> 1, reads |-> {}]

\* the week-5 page is not open
W5Parked ==
  /\ frameId = Null
  /\ rafPending = 0
  /\ params = W5Params
  /\ currentGroup = 1
  /\ uniformsData = W5Params
  /\ jitter = [written |-> {}, dropped |-> {}]
  /\ drawn = [group |-> 1, reads |-> {}]

(***************************************************************************)
(* The random number generator and the choice of a light (SpecRnd).  A u32 *)
(* is a pair <<h, l>> of 16-bit halves, so that the 32-bit product and its *)
(* mask are computed as the hardware computes them; an f32 is a pair       *)
(* <<m, e>> standing for m * 2^e with m of at most 24 bits (and 2^24 for   *)
(* the power of two above).  A conversion or a product that is not         *)
(* representable yields either neighbouring f32: WGSL leaves the rounding  *)
(* direction open.                                                         *)
(***************************************************************************)
VARIABLES
  prev,         \* *prev of mcg31: the var t of main_fs
  numLights,    \* arrayLength(&lightIndices)
  lightProg,    \* whose sample_area_light runs
  picked,       \* the last rnd() and what the last sample_area_light indexed
  draws         \* calls of mcg31 so far

rndVars == <<prev, numLights, lightProg, picked, draws>>

MaxDraws == 6
MaxLights == 3

Half == 65536

\* the product of two 16-bit numbers, as <<h, l>>
Mul16(a, b) ==
  LET u == (a \div 256) * b
      v == (a % 256) * b
      low == (u % 256) * 256 + v
  IN <<(u \div 256 + low \div Half) % Half, low % Half>>

\* a * b of two u32: the low 32 bits of the product
Mul32(a, b) ==
  LET p == Mul16(a[2], b[2])
      mixed == Mul16(a[1], b[2])[2] + Mul16(a[2], b[1])[2]
  IN <<(p[1] + mixed) % Half, p[2]>>

\* x & 0x7FFFFFFF
Mask31(x) == <<x[1] % 32768, x[2]>>

\* const LCG_A = 1977654935u
LCG_A == <<30176, 40599>>

\* mcg31 without the mask
mcg31_nomask(x) == Mul32(LCG_A, x)

\* *prev = (LCG_A * (*prev)) & 0x7FFFFFFF
mcg31(x) == Mask31(Mul32(LCG_A, x))

RECURSIVE Pow2n(_)
Pow2n(n) == IF n = 0 THEN 1 ELSE 2 * Pow2n(n - 1)

\* how many bits n has
RECURSIVE BitLength(_)
BitLength(n) == IF n = 0 THEN 0 ELSE 1 + BitLength(n \div 2)

\* the f32 values a non-negative integer m * 2^e may round to
RoundF32(m, e) ==
  LET b == BitLength(m) IN
  IF b <= 24 THEN {<<m, e>>}
  ELSE LET q == Pow2n(b - 24)
       IN IF m % q = 0 THEN {<<m \div q, e + b - 24>>}
          ELSE {<<m \div q, e + b - 24>>, <<m \div q + 1, e + b - 24>>}

\* f32(x) of a u32
F32(x) ==
  IF x[1] < 32768 THEN RoundF32(x[1] * Half + x[2], 0)
  ELSE LET m == x[1] * 256 + x[2] \div 256
       IN IF x[2] % 256 = 0 THEN {<<m, 8>>} ELSE {<<m, 8>>, <<m + 1, 8>>}

\* f32(mcg31(prev)) / f32(0x80000000), given the new state
rnd(x) == {<<f[1], f[2] - 31>> : f \in F32(x)}

\* f < 1.0
BelowOne(f) == f[2] < 0 /\ (-f[2] > 24 \/ f[1] < Pow2n(-f[2]))

\* u32(f * f32(n)) for 0 <= f <= 2 and a small n
IndexOf(f, n) ==
  {IF g[2] >= 0 THEN g[1] * Pow2n(g[2])
   ELSE IF -g[2] > 24 THEN 0 ELSE g[1] \div Pow2n(-g[2]) :
     g \in RoundF32(f[1] * n, f[2])}

LightPrograms29 == {"week08/part3", "part_002"}

\* the values of t the model starts from, among them the ones mcg31 maps to
\* 2^31 - 1, 2^31 - 64, 2^31 - 128, 2^24 + 1 and 5
Seeds ==
  {<<0, 1>>, <<1883, 52501>>, <<31351, 16089>>, <<64119, 16089>>, <<7631, 46656>>,
   <<15263, 27776>>, <<48031, 27776>>, <<11400, 49447>>, <<39851, 50627>>}

\* xi is 0.0 until rnd is called
NoPick == [xi |-> <<0, -31>>, indexed |-> FALSE, l_idx |-> 0, zero |-> FALSE]

\* one call of rnd(&t), as main_fs and the shaders make it
RndCall ==
  /\ draws < MaxDraws
  /\ prev' = mcg31(prev)
  /\ \E f \in rnd(prev') : picked' = [NoPick EXCEPT !.xi = f]
  /\ draws' = draws + 1
  /\ UNCHANGED <<numLights, lightProg>>

\* sample_area_light: week08/part3 returns the zero light when there is no
\* light; otherwise the first rnd picks the light and two more pick the point
sample_area_light_index ==
  /\ draws + 3 <= MaxDraws
  /\ IF lightProg = "week08/part3" /\ numLights = 0
     THEN /\ picked' = [NoPick EXCEPT !.zero = TRUE]
          /\ UNCHANGED <<prev, draws>>
     ELSE LET first == mcg31(prev) IN
          /\ \E f \in rnd(first) : \E k \in IndexOf(f, numLights) :
                picked' = [xi |-> f, indexed |-> TRUE, l_idx |-> k, zero |-> FALSE]
          /\ prev' = mcg31(mcg31(first))
          /\ draws' = draws + 3
  /\ UNCHANGED <<numLights, lightProg>>

RndInit ==
  /\ prev \in Seeds
  /\ numLights \in 0 .. MaxLights
  /\ lightProg \in LightPrograms29
  /\ picked = NoPick
  /\ draws = 0

\* no random number is drawn
RndParked ==
  /\ prev = <<0, 1>>
  /\ numLights = 0
  /\ lightProg = "week08/part3"
  /\ picked = NoPick
  /\ draws = 0

\* the accumulator at rest, for the specifications that do not run it
AccParked ==
  /\ frame = 0
  /\ keepRender = FALSE
  /\ pending = 0
  /\ options = [gamma |-> 1, shader |-> 1, background |-> 0, zoom |-> 10]
  /\ queue = <<>>
  /\ running = Idle
  /\ todo = {}
  /\ renderSrc = [p \in Pixels |-> R(0)]
  /\ renderDst = [p \in Pixels |-> R(0)]
  /\ canvas = [p \in Pixels |-> R(0)]
  /\ sinceReset = 0
  /\ sampleSum = [p \in Pixels |-> R(0)]
  /\ sampleCount = [p \in Pixels |-> 0]

\* no path is traced
PathParked ==
  /\ prog = "none"
  /\ uniforms = [triangle_shader |-> 0, matt_shader |-> 0, sphere_shader |-> 0]
  /\ r = [origin |-> <<R(0), R(0)>>]
  /\ hit = default_hitinfo
  /\ res = V3(R(0))
  /\ loop_i = 0
  /\ pc = "done"
  /\ terminal = "active"
  /\ nIntersect = 0
  /\ last = [branch |-> "none", xi |-> R(0)]
  /\ nLit = 0

\* no intersect_scene and no intersect_trimesh is followed
SceneParked == entry = [r |-> [origin |-> V3(R(0))], mesh |-> NoMesh]

BspParked ==
  /\ node = 0
  /\ branch_lvl = 0
  /\ branch_node = [l \in 0 .. MAX_LEVEL - 1 |-> <<0, 0>>]
  /\ branch_ray = [l \in 0 .. MAX_LEVEL - 1 |-> <<R(0), R(0)>>]

\* the variables of main_fs and of its history that a call of intersect_scene
\* or of intersect_trimesh does not touch
loopVars == <<res, terminal, nIntersect, last, nLit>>

LoopParked ==
  /\ res = V3(R(0))
  /\ terminal = "active"
  /\ nIntersect = 0
  /\ last = [branch |-> "none", xi |-> R(0)]
  /\ nLit = 0

vars == <<accVars, pathVars, entry, bspVars, w5Vars, rndVars>>

\* what the steps of the accumulator leave alone
besidesAcc == <<pathVars, entry, bspVars, w5Vars, rndVars>>

\* what the steps of a bounce loop leave alone
besidesPath == <<accVars, entry, bspVars, w5Vars, rndVars>>

\* what the steps of intersect_scene leave alone
besidesScene == <<accVars, loopVars, loop_i, bspVars, w5Vars, rndVars>>

\* what the steps of intersect_trimesh leave alone
besidesBsp == <<accVars, loopVars, uniforms, w5Vars, rndVars>>

Init == AccInit /\ PathParked /\ SceneParked /\ BspParked /\ W5Parked /\ RndParked

Next ==
  \/ ClickRender /\ UNCHANGED besidesAcc
  \/ ClickToggle /\ UNCHANGED besidesAcc
  \/ ClickReset /\ UNCHANGED besidesAcc
  \/ GammaInput /\ UNCHANGED besidesAcc
  \/ ShaderChange /\ UNCHANGED besidesAcc
  \/ BackgroundChange /\ UNCHANGED besidesAcc
  \/ Wheel /\ UNCHANGED besidesAcc
  \/ progressiveRender /\ UNCHANGED besidesAcc
  \/ GpuBeginPass /\ UNCHANGED besidesAcc
  \/ (\E p \in Pixels, sample \in Samples : GpuFragment(p, sample))
       /\ UNCHANGED besidesAcc
  \/ GpuCopy /\ UNCHANGED besidesAcc

Spec == Init /\ [][Next]_vars

PathNext ==
  \/ (\E enable_background \in {0, 1} : W08Miss(enable_background))
       /\ UNCHANGED besidesPath
  \/ (\E prim \in {"sphere1", "sphere2"}, n \in Normals :
        W08Hit(prim, n, [diffuse |-> V3(R(0)), emission |-> V3(R(0))]))
       /\ UNCHANGED besidesPath
  \/ (\E n \in Normals, mat \in Materials : W08Hit("mesh", n, mat))
       /\ UNCHANGED besidesPath
  \/ (\E in \in ShadeInputs(prog, r, hit) : W08Shade(in))
       /\ UNCHANGED besidesPath
  \/ W06Miss /\ UNCHANGED besidesPath
  \/ (\E prim \in {"sphere1", "sphere2"}, n \in Normals :
        W06Hit(prim, n, [diffuse |-> V3(R(0)), emission |-> V3(R(0))]))
       /\ UNCHANGED besidesPath
  \/ (\E n \in Normals, mat \in Materials : W06Hit("mesh", n, mat))
       /\ UNCHANGED besidesPath
  \/ (\E in \in ShadeInputs(prog, r, hit) : W06Shade(in))
       /\ UNCHANGED besidesPath
  \/ (\E enable_background \in {0, 1} : P2Miss(enable_background))
       /\ UNCHANGED besidesPath
  \/ (\E n \in Normals, mat \in Materials : P2Hit(n, mat))
       /\ UNCHANGED besidesPath
  \/ (\E in \in ShadeInputs(prog, r, hit) : P2Shade(in))
       /\ UNCHANGED besidesPath
  \/ AnalyticMiss /\ UNCHANGED besidesPath
  \/ (\E prim \in {"plane", "triangle", "sphere"}, n \in Normals :
        AnalyticHit(prim, n))
       /\ UNCHANGED besidesPath
  \/ (\E in \in ShadeInputs(prog, r, hit) : AnalyticShade(in))
       /\ UNCHANGED besidesPath

InitPath == PathInit /\ AccParked /\ SceneParked /\ BspParked /\ W5Parked /\ RndParked

SpecPath == InitPath /\ [][PathNext]_vars

SceneNext ==
  \/ SceneEnter /\ UNCHANGED besidesScene
  \/ ScenePlane /\ UNCHANGED besidesScene
  \/ SceneTriangle /\ UNCHANGED besidesScene
  \/ SceneSphere /\ UNCHANGED besidesScene
  \/ SceneSphere1 /\ UNCHANGED besidesScene
  \/ SceneSphere2 /\ UNCHANGED besidesScene
  \/ SceneTrimesh /\ UNCHANGED besidesScene

InitScene ==
  SceneInit /\ LoopParked /\ loop_i = 0 /\ AccParked /\ BspParked /\ W5Parked /\ RndParked

SpecScene == InitScene /\ [][SceneNext]_vars

BspNext ==
  \/ BspLeaf /\ UNCHANGED besidesBsp
  \/ BspInner /\ UNCHANGED besidesBsp

InitBsp ==
  /\ BspInit
  /\ LoopParked
  /\ uniforms = [triangle_shader |-> 0, matt_shader |-> 0, sphere_shader |-> 0]
  /\ AccParked
  /\ W5Parked /\ RndParked

SpecBsp == InitBsp /\ [][BspNext]_vars

\* what the steps of the week-5 host loop leave alone
besidesW5 == <<accVars, pathVars, entry, bspVars, rndVars>>

W5Next ==
  \/ SphereMenuChange /\ UNCHANGED besidesW5
  \/ MaterialMenuChange /\ UNCHANGED besidesW5
  \/ ImageStyleChange /\ UNCHANGED besidesW5
  \/ IncreaseClick /\ UNCHANGED besidesW5
  \/ DecreaseClick /\ UNCHANGED besidesW5
  \/ W5Wheel /\ UNCHANGED besidesW5
  \/ renderFrame /\ UNCHANGED besidesW5

InitW5 ==
  W5Init /\ AccParked /\ PathParked /\ SceneParked /\ BspParked /\ RndParked

SpecW5 == InitW5 /\ [][W5Next]_vars

\* what the random number generator leaves alone
besidesRnd == <<accVars, pathVars, entry, bspVars, w5Vars>>

RndNext ==
  \/ RndCall /\ UNCHANGED besidesRnd
  \/ sample_area_light_index /\ UNCHANGED besidesRnd

InitRnd ==
  RndInit /\ AccParked /\ PathParked /\ SceneParked /\ BspParked /\ W5Parked

SpecRnd == InitRnd /\ [][RndNext]_vars

(***************************************************************************)
(* The accumulator and the host loop (Spec).                               *)
(***************************************************************************)
Mean(p) == RDiv(sampleSum[p], R(sampleCount[p]))

Done == IF running = Idle THEN {} ELSE Pixels \ todo

\* C1: the j-th render since the last reset is given frame index j-1, and a
\* pixel's accumulation value is the arithmetic mean of its samples since the
\* reset.
C1_RunningMean ==
  /\ \A i \in 1 .. Len(queue) : queue[i].frame = queue[i].k
  /\ running # Idle => running.frame = running.k
  /\ \A p \in Done : sampleCount[p] = running.frame + 1
  /\ \A p \in Pixels : sampleCount[p] >= 1 => renderSrc[p] = Mean(p)

C1_Witness ==
  \E p \in Pixels : sampleCount[p] = 2 /\ renderSrc[p] = <<1, 2>>

\* C3: a pass reads, for every pixel, what the previous pass wrote (renderDst
\* equals renderSrc for the pixels not yet redrawn), and renderDst does not
\* change while fragment tasks of the pass are outstanding.
C3_PingPong ==
  /\ [](running # Idle => \A p \in todo : renderDst[p] = renderSrc[p])
  /\ [][todo # {} => renderDst' = renderDst]_vars

C3_Witness ==
  /\ running # Idle
  /\ running.frame >= 1
  /\ todo # {}
  /\ \E p \in Done : renderSrc[p] # renderDst[p]

\* C4: after a reset the next render has frame index 0, and the pass of that
\* render writes the sample itself, whatever renderDst held.
C4_ResetCut ==
  /\ sinceReset = 0 => frame = 0
  /\ \A i \in 1 .. Len(queue) : queue[i].k = 0 => queue[i].frame = 0
  /\ running # Idle /\ running.k = 0 =>
        \A p \in Done : /\ sampleCount[p] = 1
                         /\ renderSrc[p] = sampleSum[p]
                         /\ canvas[p] = Pow(sampleSum[p], running.gamma)

C4_Witness ==
  /\ running # Idle
  /\ running.k = 0
  /\ \E p \in Done : renderDst[p] # R(0) /\ renderSrc[p] # renderDst[p]

\* C10: the accumulation textures hold linear values only; the gamma power is
\* on the canvas output alone, computed from the linear value of the same task.
C10_GammaOnDisplayOnly ==
  /\ \A p \in Pixels : IsLinear(renderSrc[p]) /\ IsLinear(renderDst[p])
  /\ \A p \in Done : canvas[p] = Pow(renderSrc[p], running.gamma)

C10_Witness ==
  \E p \in Done : /\ running.gamma # 1
                   /\ ~IsLinear(canvas[p])
                   /\ renderSrc[p] = <<1, 2>>

(***************************************************************************)
(* The bounce loops (SpecPath).                                            *)
(***************************************************************************)
\* C6: the loop makes at most 10 (mesh path tracers) or 8 (analytic scenes)
\* iterations, it has ended exactly when the path is in one of the terminal
\* states miss, Russian roulette, absorbed, non-continuing shader or bounce
\* cap, the cap is the terminal state exactly of a continuing path whose
\* counter reached the bound, and a terminated path is not intersected again
\* and its radiance does not change.
C6_BoundedLoop ==
  /\ [](/\ nIntersect <= (IF prog \in AnalyticPrograms THEN 8 ELSE 10)
        /\ terminal \in {"active", "miss", "rr", "absorbed", "shader", "cap"}
        /\ (pc = "done") <=> (terminal # "active")
        /\ terminal = "cap" =>
             /\ loop_i = (IF prog \in AnalyticPrograms THEN 8 ELSE 10)
             /\ nIntersect = loop_i
             /\ last.branch \in {"survived", "mirror", "reflected", "refracted",
                                 "glossy"})
  /\ [][terminal # "active" => UNCHANGED <<res, nIntersect, terminal, r, hit>>]_vars

C6_Witness ==
  /\ prog = "part_000/3"
  /\ terminal = "cap"
  /\ nIntersect = 8

\* C7: at a diffuse hit of week08/part3 with Pd the mean channel of
\* throughput x albedo, the shader lets the path go on iff the draw is below
\* Pd; then the new throughput is throughput x albedo / Pd, and Pd times it is
\* throughput x albedo; otherwise the loop ends by roulette with the ray as it
\* was.
C7_Step ==
  (prog = "week08/part3" /\ pc = "shade" /\ hit.shader = 1) =>
    LET tp == VMul(hit.throughput, hit.diffuse)
        Pd == Mean3(tp)
    IN IF RLt(last'.xi, Pd)
       THEN /\ ~hit'.has_hit
            /\ last'.branch = "survived"
            /\ hit'.throughput = VDiv(tp, Pd)
            /\ VScale(hit'.throughput, Pd) = tp
            /\ terminal' \in {"active", "cap"}
       ELSE /\ hit'.has_hit
            /\ r' = r
            /\ pc' = "done"
            /\ terminal' = "rr"

C7_RussianRoulette == [][C7_Step]_vars

C7_Witness ==
  /\ prog = "week08/part3"
  /\ last.branch = "survived"
  /\ last.xi = <<3, 4>>
  /\ hit.diffuse = V3(<<1, 2>>)
  /\ hit.throughput = <<<<3, 2>>, R(0), <<3, 2>>>>

\* the survival probability of the roulette of the shader call about to run
RouletteProbability ==
  IF hit.shader = 1 THEN Mean3(VMul(hit.throughput, hit.diffuse))
  ELSE LET x == VScale(hit.extinction, hit.distance)
       IN Mean3(<<exp_neg(x[1]), exp_neg(x[2]), exp_neg(x[3])>>)

\* a shader call of week08/part3 that plays roulette is about to run
AtRoulette ==
  /\ prog = "week08/part3"
  /\ pc = "shade"
  /\ \/ hit.shader = 1
     \/ hit.shader = 6 /\ RGt(dot(r.direction, hit.normal), R(0))

\* C8 as stated: a roulette step of probability zero does not divide, ends
\* the path, and adds nothing to the radiance.
C8_ZeroContribution ==
  [][(AtRoulette /\ RouletteProbability = R(0)) =>
       /\ ~IsNaN3(hit'.throughput)
       /\ pc' = "done"
       /\ res' = res]_vars

\* C8: the throughput is never the result of a division by zero; the
\* dielectric roulette has probability at least 1/3 (the extinction of the
\* blue channel is 0); a diffuse roulette of probability zero ends the path
\* with the ray as it was and adds to the radiance only the emission of the
\* surface hit, weighted by the throughput of the path, and nothing for the
\* continuation.
C8_ZeroProbabilityEnds ==
  /\ [](prog = "week08/part3" => ~IsNaN3(hit.throughput))
  /\ [](AtRoulette /\ hit.shader = 6 => RGe(RouletteProbability, <<1, 3>>))
  /\ [][(AtRoulette /\ RouletteProbability = R(0)) =>
          /\ ~IsNaN3(hit'.throughput)
          /\ r' = r
          /\ pc' = "done"
          /\ terminal' = "rr"
          /\ res' = VAdd(res, VMul(hit.throughput, hit.emission))]_vars

C8_Witness ==
  /\ prog = "week08/part3"
  /\ terminal = "rr"
  /\ hit.diffuse = V3(R(0))
  /\ hit.throughput = V3(R(0))
  /\ res = V3(R(1))

\* ior of the glass over ior of the air, as the dielectric shader about to run
\* computes it for a ray that is inside
EtaInside ==
  IF prog \in AnalyticPrograms THEN r.ior ELSE RDiv(R(1), hit.ior1_over_ior2)

\* a dielectric shader call is about to run for a ray that is inside
InsideDielectric ==
  /\ pc = "shade"
  /\ UsesRefraction(prog, hit.shader)
  /\ RGt(dot(r.direction, hit.normal), R(0))

BeyondCritical ==
  LET c == dot(r.direction, hit.normal)
  IN RGt(RMul(RMul(EtaInside, EtaInside), RSub(R(1), RMul(c, c))), R(1))

\* C9 as stated: beyond the critical angle the new direction is always the
\* reflection of the incoming one.
C9_AlwaysMirror ==
  [][(InsideDielectric /\ BeyondCritical) =>
       r'.direction = reflect(r.direction, hit.normal)]_vars

\* C9: beyond the critical angle a ray that is inside leaves the dielectric
\* shader with the reflection of its direction and never with a refracted
\* one, unless the absorption roulette of week08/part3 (draw not below the
\* mean transmittance) has ended the path before, with the ray as it was;
\* below the critical angle the total-reflection branch is not taken.
C9_TotalReflection ==
  [][InsideDielectric =>
       IF BeyondCritical
       THEN \/ /\ last'.branch \in {"mirror", "glossy"}
               /\ r'.direction = reflect(r.direction, hit.normal)
               /\ prog = "week08/part3" => RLt(last'.xi, RouletteProbability)
            \/ /\ last'.branch = "absorbed"
               /\ prog = "week08/part3"
               /\ ~RLt(last'.xi, RouletteProbability)
               /\ r' = r
               /\ terminal' = "absorbed"
       ELSE last'.branch # "mirror"]_vars

C9_Witness ==
  /\ prog = "week08/part3"
  /\ hit.shader = 6
  /\ last.branch = "mirror"
  /\ RLt(dot(r.direction, hit.normal), R(0))
  /\ RAbs(dot(r.direction, hit.normal)) = <<3, 5>>

(***************************************************************************)
(* intersect_scene and intersect_trimesh (SpecScene, SpecBsp).             *)
(***************************************************************************)
\* the intersections of the ray e.r with the primitives of the scene of
\* program p that lie within [tmin, tmax]: the plane, the triangle, both
\* roots of every sphere, the nearest triangle of the mesh
SceneCandidates(p, e) ==
  LET ray == e.r
      sphere(prim, c, radius) ==
        {[prim |-> prim, t |-> t,
          n |-> VSub(VAdd(ray.origin, VScale(ray.direction, t)), c),
          mat |-> NoMesh.mat] :
           t \in {sphere_roots(ray, c, radius, R(0))[k] : k \in {1, 2}}}
      all == IF p = "week08/part3"
             THEN sphere("sphere1", Sphere1Centre, R(90))
                  \cup sphere("sphere2", Sphere2Centre, R(90))
                  \cup {[prim |-> "mesh", t |-> e.mesh.t, n |-> e.mesh.n,
                         mat |-> e.mesh.mat]}
             ELSE sphere("sphere", SphereCentre, SphereRadius)
                  \cup {[prim |-> "plane", t |-> plane_t(ray, V3(R(0)), PlaneNormal),
                         n |-> PlaneNormal, mat |-> NoMesh.mat],
                        [prim |-> "triangle",
                         t |-> triangle_t(ray, TriangleV[1], TriangleV[2],
                                          TriangleV[3]),
                         n |-> cross(VSub(TriangleV[2], TriangleV[1]),
                                     VSub(TriangleV[3], TriangleV[1])),
                         mat |-> NoMesh.mat]}
  IN {c \in all : RGe(c.t, ray.tmin) /\ LeBound(c.t, ray.tmax)}

\* C5: when intersect_scene returns, it reports a hit exactly when some
\* primitive intersects the ray it was called with within [tmin, tmax], and
\* the hit it returns has the distance, the position, the normal and the
\* material and shader fields of the nearest of these intersections.
C5_NearestHit ==
  (prog \in ScenePrograms /\ pc = "done") =>
    LET S == SceneCandidates(prog, entry)
        near == CHOOSE c \in S : \A d \in S : RLe(c.t, d.t)
    IN IF S = {} THEN ~hit.has_hit
       ELSE /\ hit.has_hit
            /\ hit = SceneHit(prog, entry.r, hit, near.prim, near.t, near.n,
                              near.mat)

\* the first shader of part_000 returns the plane, at distance 9/5, for the
\* ray that shade_refract sends into the sphere from (1/5, 3/5, 1/5), which
\* leaves the sphere at distance 3/5
C5_Witness ==
  /\ prog = "part_000/1"
  /\ pc = "done"
  /\ entry.r.origin = Vec(1, 3, 1, 5)
  /\ hit.has_hit
  /\ hit.dist = <<9, 5>>
  /\ hit.rho_d = VScale(BaseColour("plane"), <<9, 10>>)

\* C2: when intersect_trimesh returns, it returns true exactly when the scan
\* over all triangles finds a hit for the ray it was called with, and then
\* with the same hit distance.
C2_BspEqualsLinearScan ==
  (prog \in BspPrograms /\ pc \in {"return true", "return false"}) =>
    LET linear == intersect_scene_w06(entry.r, BspHit0, 0)
    IN /\ (pc = "return true") = linear.has_hit
       /\ linear.has_hit => hit.distance = linear.distance

\* the ray from (3, 0, 1) with direction (-5e-9, 1, 0): the traversal returns
\* triangle 3 at distance 4, the scan finds triangle 1 at distance 1
C2_Witness ==
  /\ prog \in BspPrograms
  /\ pc = "return true"
  /\ entry.r.origin = Vec(3, 0, 1, 1)
  /\ entry.r.direction[1] = <<-1, 200000000>>
  /\ hit.distance = R(4)
  /\ hit.triangle_idx = 3
  /\ intersect_scene_w06(entry.r, BspHit0, 0).distance = R(1)

LeafTies ==
  {j \in 0 .. bspTree[node].count - 1 :
     intersect_triangle(r, hit, treeIds[bspTree[node].y + j], Tiny).found}

\* C12: when several triangles of a leaf intersect the ray at the same,
\* nearest distance, intersect_trimesh returns the one that was tested first.
C12_FirstWriterWins ==
  (prog \in BspPrograms /\ pc = "return true") =>
    \A j \in LeafTies : hit.triangle_idx = treeIds[bspTree[node].y + j] \/
                        \E k \in LeafTies : k < j

\* the ray from (7/2, 0, 1) straight up meets the edge shared by triangles 1
\* and 4 at distance 1; the leaf tests 1 before 4 and returns 4
C12_Witness ==
  /\ prog \in BspPrograms
  /\ pc = "return true"
  /\ entry.r.origin = Vec(7, 0, 2, 2)
  /\ hit.distance = R(1)
  /\ LeafTies = {0, 1}
  /\ hit.triangle_idx = 4

(***************************************************************************)
(* intersect_min_max on its own (SpecBox): one call on a ray, r being the  *)
(* ray the call leaves and entry.r the ray it was given.  The components   *)
(* of every direction are non-zero, so no quotient is infinite.            *)
(***************************************************************************)
BoxPrograms == {"week06/part2", "week08/part3"}

\* rays from the camera, from inside the box and from beside it, towards the
\* box and away from it; intervals that hold the box, that end before it,
\* that start inside it, and intervals with tmin above tmax
BoxRays ==
  {[origin |-> o, direction |-> d, tmin |-> t0, tmax |-> t1] :
     o \in {Vec(277, 275, -570, 1), Vec(70, 60, 190, 1), Vec(600, 100, 100, 1)},
     d \in {Vec(2, 1, 2, 3), Vec(3, 4, 12, 13), Vec(-2, -1, -2, 3),
            Vec(-12, -4, 3, 13)},
     t0 \in {<<1, 10000>>, R(700)},
     t1 \in {Sci(1, 10), R(800), R(150)}}

BoxInit ==
  /\ prog \in BoxPrograms
  /\ r \in BoxRays
  /\ entry = [r |-> r, mesh |-> NoMesh]
  /\ hit = [has_hit |-> FALSE]
  /\ loop_i = 0
  /\ pc = "call"

\* if (!intersect_min_max(r)) { return false; }
BoxTest ==
  /\ prog \in BoxPrograms
  /\ pc = "call"
  /\ \E box \in {intersect_min_max(r)} :
       /\ r' = box.r
       /\ pc' = IF box.inside THEN "true" ELSE "false"
  /\ UNCHANGED <<prog, entry>>

\* what the call of intersect_min_max leaves alone
besidesBox == <<accVars, loopVars, uniforms, hit, loop_i, bspVars, w5Vars, rndVars>>

BoxNext == BoxTest /\ UNCHANGED besidesBox

InitBox ==
  /\ BoxInit
  /\ LoopParked
  /\ uniforms = [triangle_shader |-> 0, matt_shader |-> 0, sphere_shader |-> 0]
  /\ AccParked
  /\ W5Parked /\ RndParked
  /\ BspParked

SpecBox == InitBox /\ [][BoxNext]_vars

\* the t at which ray meets the two planes of the box across axis k
SlabPair(ray, k) ==
  <<RDiv(RSub(aabb.min[k], ray.origin[k]), ray.direction[k]),
    RDiv(RSub(aabb.max[k], ray.origin[k]), ray.direction[k])>>

\* t is inside the slab of axis k widened by the 1e-3 of the code
InSlab(ray, k, t) ==
  LET within(p) == /\ RGe(t, RSub(RMin(p[1], p[2]), <<1, 1000>>))
                   /\ RLe(t, RAdd(RMax(p[1], p[2]), <<1, 1000>>))
  IN within(SlabPair(ray, k))

\* C13: a call of intersect_min_max that returns false leaves r.tmin and
\* r.tmax as they were; a call that returns true on a ray with tmin <= tmax
\* leaves the old interval cut by the slab interval of the box: the new tmin
\* is not below the old, the new tmax not above the old, the new tmin not
\* above the new tmax, and both ends are inside the three slabs.
C13_MinMaxFrame ==
  /\ (prog \in BoxPrograms /\ pc = "false") => r = entry.r
  /\ (prog \in BoxPrograms /\ pc = "true" /\ LeBound(entry.r.tmin, entry.r.tmax)) =>
       /\ r.origin = entry.r.origin /\ r.direction = entry.r.direction
       /\ RGe(r.tmin, entry.r.tmin)
       /\ LeBound(r.tmax, entry.r.tmax)
       /\ Len(r.tmax) = 2
       /\ RLe(r.tmin, r.tmax)
       /\ \A k \in 1 .. 3 : InSlab(entry.r, k, r.tmin) /\ InSlab(entry.r, k, r.tmax)

\* the camera ray that enters the box at t = 617.5 and leaves it at 890.5,
\* cut from [1e-4, 1e10] to the box and from [700, 800] not at all; and a
\* ray that misses
C13_Witness ==
  /\ prog = "week08/part3"
  /\ entry.r.origin = Vec(277, 275, -570, 1)
  /\ entry.r.direction = Vec(3, 4, 12, 13)
  /\ entry.r.tmin = <<1, 10000>>
  /\ entry.r.tmax = Sci(1, 10)
  /\ pc = "true"
  /\ r.tmin = <<617499, 1000>>
  /\ r.tmax = <<890501, 1000>>

(***************************************************************************)
(* intersect_scene against a mesh without triangles (SpecEmpty): the BSP   *)
(* tree is one leaf with count 0.  The builder of the tree and of the      *)
(* uniform aabb is not part of the repository, so the aabb it leaves for   *)
(* no triangles is one of: the box that no vertex was added to (min above  *)
(* max), a box of zeros, and the box of the room.                          *)
(***************************************************************************)
EmptyLeaf == [axis_leaf |-> BSP_LEAF, count |-> 0, y |-> 0, z |-> 0, w |-> 0]

EmptyBoxes ==
  {[min |-> Vec(10000, 10000, 10000, 1), max |-> Vec(-10000, -10000, -10000, 1)],
   [min |-> V3(R(0)), max |-> V3(R(0))],
   aabb}

\* rays through the centre of either sphere, rays past both, and rays that
\* leave them behind; the interval is [0, unbounded), the one of a camera
\* ray, or the one of a bounced ray
EmptyRays ==
  {[origin |-> o, direction |-> d, tmin |-> i[1], tmax |-> i[2]] :
     o \in {Vec(277, 275, -570, 1), Vec(240, 0, 190, 1), Vec(70, 60, 190, 1)},
     d \in {Vec(2, 1, 2, 3), Vec(3, 4, 12, 13), Vec(-2, -1, -2, 3)},
     i \in {<<R(0), Sci(1, 32)>>, <<<<1, 10000>>, Sci(1, 10)>>,
            <<<<1, 1000>>, R(1000000)>>}}

EmptyInit ==
  /\ prog \in BoxPrograms
  /\ uniforms \in Uniforms(prog)
  /\ r \in EmptyRays
  /\ hit \in IF prog = "week08/part3" THEN SceneHits(prog, r) ELSE {BspHit0}
  /\ \E box \in EmptyBoxes : entry = [r |-> r, mesh |-> NoMesh, aabb |-> box]
  /\ pc = "enter"

\* if (!intersect_min_max(r)) { return false; }
EmptyEnter ==
  /\ prog \in BoxPrograms
  /\ pc = "enter"
  /\ \E box \in {intersect_box(r, entry.aabb)} :
       /\ r' = box.r
       /\ pc' = IF ~box.inside THEN "return false"
                ELSE IF prog = "week08/part3" THEN "sphere1" ELSE "trimesh"
  /\ UNCHANGED <<prog, uniforms, hit, entry>>

\* if (intersect_trimesh(r, hit)) { ... } return hit.has_hit; the traversal
\* starts at the root with branch_lvl = 0, finds it a leaf, tests none of
\* its count = 0 triangles and returns false
EmptyTrimesh ==
  /\ prog \in BoxPrograms
  /\ pc = "trimesh"
  /\ branch_lvl = 0
  /\ \E s \in {LeafScan(r, hit, FALSE, EmptyLeaf, 0)} :
       /\ ~s.found
       /\ hit' = s.hit
       /\ r' = s.r
       /\ pc' = IF s.hit.has_hit THEN "return true" ELSE "return false"
  /\ UNCHANGED <<prog, uniforms, entry>>

EmptyNext ==
  \/ EmptyEnter /\ UNCHANGED besidesScene
  \/ SceneSphere1 /\ UNCHANGED besidesScene
  \/ SceneSphere2 /\ UNCHANGED besidesScene
  \/ EmptyTrimesh /\ UNCHANGED besidesScene

InitEmpty ==
  /\ EmptyInit
  /\ LoopParked
  /\ loop_i = 0
  /\ AccParked
  /\ W5Parked /\ RndParked
  /\ BspParked

SpecEmpty == InitEmpty /\ [][EmptyNext]_vars

\* intersect_scene has returned
EmptyReturned == prog \in BoxPrograms /\ pc \in {"return true", "return false"}


\* ray meets the sphere of radius 90 about c at distance t
OnSphere(ray, t, c) ==
  \E k \in 1 .. 2 : sphere_roots(ray, c, R(90), R(0))[k] = t

\* C14 as stated: with no triangles, every ray with tmin = 0 and tmax
\* unbounded gets no hit from intersect_scene.
C14_EmptySceneNoHit ==
  (EmptyReturned /\ entry.r.tmin = R(0) /\ entry.r.tmax = Sci(1, 32)) =>
    pc = "return false"

\* C14, amended: with no triangles, intersect_scene of week06/part2 returns
\* no hit for every ray, and intersect_scene of week08/part3 returns a hit
\* only on one of its two spheres, at a distance inside the ray's interval;
\* it returns no hit when the aabb rejects the ray or the ray meets neither
\* sphere inside its interval.
C14_EmptyMesh ==
  /\ (EmptyReturned /\ prog = "week06/part2") => pc = "return false" /\ hit = BspHit0
  /\ (EmptyReturned /\ prog = "week08/part3" /\ pc = "return true") =>
       /\ hit.has_hit
       /\ RGe(hit.distance, entry.r.tmin)
       /\ LeBound(hit.distance, entry.r.tmax)
       /\ hit.position = VAdd(entry.r.origin, VScale(entry.r.direction, hit.distance))
       /\ \/ OnSphere(entry.r, hit.distance, Sphere1Centre)
          \/ OnSphere(entry.r, hit.distance, Sphere2Centre)
  /\ (EmptyReturned /\ prog = "week08/part3" /\ pc = "return false") =>
       \/ ~intersect_box(entry.r, entry.aabb).inside
       \/ \A c \in {Sphere1Centre, Sphere2Centre} :
            IsNaN(intersect_sphere(prog, intersect_box(entry.r, entry.aabb).r,
                                   hit, c, R(90)))

\* no triangles, the box that no vertex was added to, and a ray from tmin = 0
\* without a tmax: week08/part3 returns the hit on the mirror sphere at 180
C14_Witness ==
  /\ prog = "week08/part3"
  /\ pc = "return true"
  /\ entry.aabb.min = Vec(10000, 10000, 10000, 1)
  /\ entry.r.origin = Vec(240, 0, 190, 1)
  /\ entry.r.tmin = R(0)
  /\ entry.r.tmax = Sci(1, 32)
  /\ hit.distance = R(180)
  /\ OnSphere(entry.r, hit.distance, Sphere1Centre)

\* C18: the direct light of every shader call is clamped: whatever the
\* cosine at the surface and the cosine at the light, a call of shade never
\* lowers a channel of the radiance of the path.
C18_ClampedCosines ==
  [][pc = "shade" => \A c \in 1 .. 3 : RGe(res'[c], res[c])]_vars

\* week06/part1 with the light below the horizon of the surface: the radiance
\* of the path is below zero
C18_Witness ==
  /\ prog = "week06/part1"
  /\ last.branch = "lambertian"
  /\ \E c \in 1 .. 3 : RLt(res[c], R(0))

(***************************************************************************)
(* The direct light of one diffuse shader call (SpecLight): shade_lambert  *)
(* of part_000 (lines 272-284) and lambertian of week08/part3, from the    *)
(* sample of the light over the shadow ray and its trace through the       *)
(* scene to the value returned.  r and hit are the shadow ray and the      *)
(* shadow hit, entry.surface the hit that is shaded, entry.light the       *)
(* Light, entry.r the shadow ray as it was cast, res the value returned.   *)
(***************************************************************************)
LightPrograms == {"part_000/1", "week08/part3"}

\* const EPS: f32 = 1e-4
EPS == <<1, 10000>>

\* sample_point_light of lines 257-264, Li in units of PI
sample_point_light(pos) ==
  LET light(L_vec, dist_sq, dist) ==
        [L_i |-> V3(RDiv(R(1), RMax(dist_sq, <<1, 10000>>))),
         w_i |-> VDiv(L_vec, dist), dist |-> dist]
      to(L_vec, dist_sq) == light(L_vec, dist_sq, sqrt(dist_sq))
      from(L_vec) == to(L_vec, dot3(L_vec, L_vec))
  IN from(VSub(Vec(0, 1, 0, 1), pos))

\* sample_area_light of week08/part3 for the point light_pos of a light
\* triangle with normal n_light; emission * area * numLights is Pi
light_at(h, light_pos, n_light) ==
  LET light(w_i, dist) ==
        [L_i |-> sample_area_light("week08/part3",
                                   [power |-> V3(R(1)),
                                    cos_light |-> RNeg(dot3(w_i, n_light)),
                                    cos |-> dot3(h.normal, w_i)]).L_i,
         w_i |-> w_i, dist |-> dist]
      to(L_vec, dist) == light(VDiv(L_vec, dist), dist)
      from(L_vec) == to(L_vec, sqrt(dot3(L_vec, L_vec)))
  IN from(VSub(light_pos, h.position))

\* a shadow ray that does not stop at the light
shadow_ray_far(p, h, light) ==
  [origin |-> h.position, direction |-> light.w_i, tmin |-> <<1, 1000>>,
   tmax |-> Sci(1, 30), ior |-> R(1)]

\* the shadow ray: Ray(shadow_origin, L.omega, EPS, L.dist - EPS, 1.0) and
\* Ray(hit.position, light.w_i, 1e-3, light.dist - 1e-3); the EPS offset of
\* shadow_origin along the normal is left out, as for the bounced rays
shadow_ray(p, h, light) ==
  IF p = "part_000/1"
  THEN [origin |-> h.position, direction |-> light.w_i,
        tmin |-> EPS, tmax |-> RSub(light.dist, EPS), ior |-> R(1)]
  ELSE [origin |-> h.position, direction |-> light.w_i, tmin |-> <<1, 1000>>,
        tmax |-> RSub(light.dist, <<1, 1000>>)]

\* is_occluded of lines 239-254: the tests stop at the first that hits
is_occluded(ray) ==
  LET hits(t) == Accepts("part_000/1", ray, init_hit(ray), t)
  IN IF hits(plane_t(ray, V3(R(0)), PlaneNormal)) THEN TRUE
     ELSE IF hits(triangle_t(ray, TriangleV[1], TriangleV[2], TriangleV[3]))
     THEN TRUE
     ELSE hits(intersect_sphere("part_000/1", ray, init_hit(ray), SphereCentre,
                                SphereRadius))

\* the points shaded in the scene of part_000: on the plane in the open, under
\* the sphere and under the triangle, and on top of and under the sphere
PointSurfaces ==
  {[position |-> s[1], normal |-> s[2], rho_a |-> VScale(BaseColour("plane"), <<1, 10>>),
    rho_d |-> VScale(BaseColour("plane"), <<9, 10>>)] :
     s \in {<<Vec(2, 0, 2, 1), PlaneNormal>>, <<Vec(0, 0, 0, 1), PlaneNormal>>,
            <<Vec(0, 0, 3, 4), PlaneNormal>>, <<Vec(0, 8, 0, 10), PlaneNormal>>,
            <<Vec(0, 2, 0, 10), Vec(0, -1, 0, 1)>>}}

\* the points shaded in the room of week08/part3: on the floor in the open
\* and below the mirror sphere, the normal up or down, grey or emitting
MeshSurfaces ==
  {[default_hitinfo EXCEPT !.has_hit = TRUE, !.shader = 1, !.position = p,
                           !.normal = n, !.diffuse = m.diffuse,
                           !.emission = m.emission] :
     p \in {Vec(240, 0, 190, 1), Vec(390, 0, 325, 1)},
     n \in {Vec(0, 1, 0, 1), Vec(0, -1, 0, 1)},
     m \in Materials}

\* the points sampled on the light from position: along (2, 6, 3) / 7, before
\* the sphere and beyond it
LightPoints(position) ==
  {VAdd(position, VScale(Vec(2, 6, 3, 7), R(d))) : d \in {10, 420}}

LightInit ==
  /\ prog \in LightPrograms
  /\ uniforms \in Uniforms(prog)
  /\ IF prog = "part_000/1"
     THEN \E h \in PointSurfaces :
            entry = [r |-> [origin |-> h.position], mesh |-> NoMesh, surface |-> h,
                     light |-> sample_point_light(h.position)]
     ELSE \E h \in MeshSurfaces, n_light \in {Vec(0, -1, 0, 1), Vec(0, 1, 0, 1)},
             mesh \in MeshAnswers :
            \E light_pos \in LightPoints(h.position) :
              entry = [r |-> [origin |-> h.position], mesh |-> mesh, surface |-> h,
                       light |-> light_at(h, light_pos, n_light)]
  /\ r = entry.r
  /\ hit = [has_hit |-> FALSE]
  /\ res = V3(R(0))
  /\ pc = "light"

\* var shadow_ray = Ray(...); var shadow_hit = default_hitinfo(); and the
\* var h = init_hit(r) of is_occluded
LightCast ==
  /\ prog \in LightPrograms
  /\ pc = "light"
  /\ r' = shadow_ray(prog, entry.surface, entry.light)
  /\ entry' = [entry EXCEPT !.r = r']
  /\ hit' = IF prog = "part_000/1" THEN init_hit(r') ELSE SceneHit0(prog, r')
  /\ pc' = IF prog = "part_000/1" THEN "occluded" ELSE "enter"
  /\ UNCHANGED <<prog, uniforms, res>>

\* if (!is_occluded(shadow_ray))
LightOccluded ==
  /\ prog = "part_000/1"
  /\ pc = "occluded"
  /\ hit' = [hit EXCEPT !.has_hit = is_occluded(r)]
  /\ pc' = "done"
  /\ UNCHANGED <<prog, uniforms, r, res, entry>>

\* the rest of shade_lambert and of lambertian, V = !intersect_scene(...)
LightShade ==
  /\ prog \in LightPrograms
  /\ pc = "done"
  /\ \E xi \in Xi :
       LET in == [V |-> ~hit.has_hit,
                  light |-> [L_i |-> entry.light.L_i,
                             cos |-> dot3(entry.surface.normal, entry.light.w_i)],
                  xi |-> xi, w |-> entry.surface.normal]
       IN res' = IF prog = "part_000/1" THEN shade_lambert(entry.surface, in)
                 ELSE lambertian(r, entry.surface, in).value
  /\ pc' = "shaded"
  /\ UNCHANGED <<prog, uniforms, r, hit, entry>>

\* what the steps of a diffuse shader call leave alone
besidesLight == <<accVars, loop_i, terminal, nIntersect, last, nLit, bspVars, w5Vars, rndVars>>

LightNext ==
  \/ LightCast /\ UNCHANGED besidesLight
  \/ SceneEnter /\ UNCHANGED <<besidesLight, res>>
  \/ SceneSphere1 /\ UNCHANGED <<besidesLight, res>>
  \/ SceneSphere2 /\ UNCHANGED <<besidesLight, res>>
  \/ SceneTrimesh /\ UNCHANGED <<besidesLight, res>>
  \/ LightOccluded /\ UNCHANGED besidesLight
  \/ LightShade /\ UNCHANGED besidesLight

InitLight ==
  /\ LightInit
  /\ loop_i = 0
  /\ terminal = "active"
  /\ nIntersect = 0
  /\ last = [branch |-> "none", xi |-> R(0)]
  /\ nLit = 0
  /\ AccParked
  /\ W5Parked /\ RndParked
  /\ BspParked

SpecLight == InitLight /\ [][LightNext]_vars

\* something of the scene lies on the shadow ray between its tmin and tmax
Occluded == SceneCandidates(prog, entry) # {}

\* ambient or emission of the shaded point
Ambient ==
  IF prog = "part_000/1" THEN entry.surface.rho_a ELSE entry.surface.emission

\* (diffuse / pi) * L_i * max(0, cos theta) of the shaded point
Direct ==
  VScale(VMul(IF prog = "part_000/1" THEN entry.surface.rho_d
              ELSE entry.surface.diffuse, entry.light.L_i),
         RMax(R(0), dot3(entry.surface.normal, entry.light.w_i)))

\* C15: the shadow ray of a diffuse shader call points at the light and ends
\* epsilon before it; the call returns ambient or emission plus
\* (diffuse / pi) * L_i * max(0, cos theta) when nothing lies on the shadow
\* ray, and ambient or emission alone when something does.
C15_DirectLight ==
  /\ (prog \in LightPrograms /\ pc # "light") =>
       /\ entry.r.direction = entry.light.w_i
       /\ entry.r.tmax = RSub(entry.light.dist,
                              IF prog = "part_000/1" THEN EPS ELSE <<1, 1000>>)
       /\ RLt(entry.r.tmax, entry.light.dist)
  /\ (prog \in LightPrograms /\ pc = "shaded") =>
       res = IF Occluded THEN Ambient ELSE VAdd(Ambient, Direct)

\* the floor below the mirror sphere with the light 10 away, before the
\* sphere: lit; and the same point with the light beyond the sphere is not
C15_Witness ==
  /\ prog = "week08/part3"
  /\ pc = "shaded"
  /\ entry.surface.position = Vec(390, 0, 325, 1)
  /\ entry.light.dist = R(10)
  /\ ~Occluded
  /\ res = VAdd(Ambient, Direct)
  /\ Direct # V3(R(0))

\* exp(-hit.extinction * hit.distance) of the hit that is shaded
Transmittance ==
  <<exp_neg(RMul(hit.extinction[1], hit.distance)),
    exp_neg(RMul(hit.extinction[2], hit.distance)),
    exp_neg(RMul(hit.extinction[3], hit.distance))>>

\* C16: a call of transparent absorbs only when the ray meets the surface
\* from inside: there, with Tr = exp(-extinction * distance) and prob the
\* mean of Tr, a draw below prob multiplies the throughput by Tr / prob and
\* the path goes on, and any other draw ends the path with nothing added and
\* the ray as it was; a ray that meets the surface from outside keeps its
\* throughput and is never absorbed.
C16_Absorption ==
  [][(prog = "week08/part3" /\ pc = "shade" /\ hit.shader = 6) =>
       IF ~InsideDielectric
       THEN /\ hit'.throughput = hit.throughput
            /\ last'.branch # "absorbed"
       ELSE IF RLt(last'.xi, Mean3(Transmittance))
       THEN /\ hit'.throughput =
                 VMul(hit.throughput, VDiv(Transmittance, Mean3(Transmittance)))
            /\ last'.branch \in {"mirror", "reflected", "refracted"}
            /\ terminal' \in {"active", "cap"}
       ELSE /\ last'.branch = "absorbed"
            /\ res' = res
            /\ r' = r
            /\ hit'.throughput = hit.throughput
            /\ pc' = "done"]_vars

\* a path that left the glass sphere after 10 units inside it: the green
\* channel is gone and the other two carry 3/2
C16_Witness ==
  /\ prog = "week08/part3"
  /\ hit.shader = 6
  /\ last.branch \in {"mirror", "reflected", "refracted"}
  /\ hit.throughput = <<<<3, 2>>, R(0), <<3, 2>>>>

\* C17: the fragment task of a pixel writes the colour and the accumulation
\* value of that pixel alone, from its own sample, the uniforms of the frame
\* and the value renderDst holds for the same pixel; it writes nothing of
\* another pixel and nothing that a task of the same pass reads.
C17_PixelIsolation ==
  [][\A p \in Pixels :
       (p \in todo /\ p \notin todo') =>
         /\ \E c \in Samples :
              /\ renderSrc'[p] = RDiv(RAdd(c, RMul(renderDst[p], R(running.frame))),
                                      R(running.frame + 1))
              /\ canvas'[p] = Pow(renderSrc'[p], running.gamma)
         /\ \A q \in Pixels \ {p} :
              renderSrc'[q] = renderSrc[q] /\ canvas'[q] = canvas[q]
         /\ renderDst' = renderDst
         /\ running' = running]_vars

\* two pixels whose accumulation values differ, in a pass after the first:
\* one task has run and has changed its own pixel, the other has not run
C17_Witness ==
  /\ running # Idle
  /\ running.frame >= 1
  /\ \E p \in Done, q \in todo :
       /\ renderDst[p] # renderDst[q]
       /\ renderSrc[p] # renderDst[p]
       /\ renderSrc[q] = renderDst[q]

(***************************************************************************)
(* The background at a miss (SpecPath).                                    *)
(***************************************************************************)
\* the fragment shaders whose HitInfo carries a throughput
MissPrograms == {"week08/part3", "part_002"}

\* select(vec3f(0.0), bgcolor.rgb, uniforms.enable_background == 1u)
Background(enable_background) ==
  IF enable_background = 1 THEN bgcolor ELSE V3(R(0))

\* the step the loop takes from its call of intersect_scene
AtIntersection ==
  IF pc' = "done"
  THEN /\ terminal' = "miss"
       /\ \E e \in {0, 1} :
            res' = VAdd(res, VMul(hit.throughput, Background(e)))
  ELSE /\ res' = res
       /\ terminal' # "miss"
       /\ hit'.has_hit

SplitDistance(ray, n) ==
  RDiv(RSub(bspPlanes[n], ray.origin[bspTree[n].axis_leaf + 1]),
       SplitDivisor(ray.direction[bspTree[n].axis_leaf + 1]))

\* the children of inner node n on the side of the origin of ray and beyond
NearChild(ray, n) ==
  IF RGe(ray.direction[bspTree[n].axis_leaf + 1], R(0)) THEN bspTree[n].z
  ELSE bspTree[n].w

FarChild(ray, n) ==
  IF RGe(ray.direction[bspTree[n].axis_leaf + 1], R(0)) THEN bspTree[n].w
  ELSE bspTree[n].z

\* an iteration at inner node `node` whose split distance is inside the
\* interval of the ray
SplitInside ==
  LET t == SplitDistance(r, node)
  IN RLt(r.tmin, t) /\ RLt(t, r.tmax) =>
       /\ branch_lvl' = branch_lvl + 1
       /\ branch_node'[branch_lvl][2] = FarChild(r, node)
       /\ branch_ray'[branch_lvl] = <<t, r.tmax>>
       /\ node' = NearChild(r, node)
       /\ r'.tmin = r.tmin
       /\ r'.tmax = t

\* and one whose split distance is outside
SplitOutside ==
  LET t == SplitDistance(r, node)
  IN RLt(t, r.tmin) \/ RGt(t, r.tmax) =>
       /\ UNCHANGED <<branch_lvl, branch_node, branch_ray, r>>
       /\ node' = IF RGt(t, r.tmax) THEN NearChild(r, node)
                  ELSE FarChild(r, node)

\* a step that takes the top entry off the stack goes on with it
Popped ==
  branch_lvl' = branch_lvl - 1 =>
    /\ node' = branch_node[branch_lvl'][2]
    /\ r'.tmin = branch_ray[branch_lvl'][1]
    /\ r'.tmax = branch_ray[branch_lvl'][2]

\* the entries that stay on the stack are not written
StackKept ==
  \A l \in 0 .. MAX_LEVEL - 1 :
    l < branch_lvl /\ l < branch_lvl' =>
      branch_node'[l] = branch_node[l] /\ branch_ray'[l] = branch_ray[l]

\* C20: at an inner node whose split distance t is inside the interval of
\* the ray the traversal pushes the far child with [t, old tmax] and goes on
\* in the near child with [old tmin, t]; an entry on the stack is not
\* written until it is popped, and the pop sets the interval of the ray to
\* the entry, so to [t, old tmax]; when t is outside the interval nothing is
\* pushed and the traversal goes on in one child only.
C20_PushAndRestore ==
  [][pc = "loop" =>
       /\ bspTree[node].axis_leaf # BSP_LEAF => SplitInside /\ SplitOutside
       /\ Popped
       /\ StackKept]_vars

\* the far child of the root was pushed and, the near child left without a
\* hit, popped: the ray is on [t, old tmax] at the far child
C20_Witness ==
  /\ pc = "loop"
  /\ branch_lvl = 0
  /\ node = FarChild(entry.r, 0)
  /\ branch_node[0] = <<0, node>>
  /\ r.tmin = SplitDistance(entry.r, 0)
  /\ r.tmax = entry.r.tmax
  /\ RLt(entry.r.tmin, r.tmin)

(***************************************************************************)
(* intersect_trimesh on node arrays of any shape (SpecTree): chains of     *)
(* inner nodes up to and past MAX_LEVEL, node arrays whose child links     *)
(* lead back to the root, and the tree over meshFaces.                     *)
(***************************************************************************)
\* the depths of the chains: short, at the cap and one past it
ChainDepths == {2, MAX_LEVEL, MAX_LEVEL + 1}

\* a chain of depth inner nodes split along x at depth, depth - 1, .., 1: the
\* child below the plane is the next node of the chain, the child above an
\* empty leaf
Chain(depth) ==
  [n \in 0 .. depth + 1 |->
     IF n < depth
     THEN [axis_leaf |-> 0, count |-> 0, y |-> 0, z |-> n + 1, w |-> depth + 1]
     ELSE EmptyLeaf]

ChainPlanes(depth) ==
  [n \in 0 .. depth + 1 |-> IF n < depth THEN R(depth - n) ELSE R(0)]

\* node arrays that are no trees: the root is its own child on both sides,
\* or on the far side of an empty leaf
SelfLoop == [n \in 0 .. 0 |-> [axis_leaf |-> 0, count |-> 0, y |-> 0, z |-> 0, w |-> 0]]

LeafLoop ==
  [n \in 0 .. 1 |->
     IF n = 0 THEN [axis_leaf |-> 0, count |-> 0, y |-> 0, z |-> 1, w |-> 0]
     ELSE EmptyLeaf]

\* rays along x, from below all planes upwards and from above all downwards
AxisRays ==
  {[origin |-> Vec(0, 0, 0, 1), direction |-> Vec(1, 0, 0, 1),
    tmin |-> <<1, 1000>>, tmax |-> R(100)],
   [origin |-> Vec(30, 0, 0, 1), direction |-> Vec(-1, 0, 0, 1),
    tmin |-> <<1, 1000>>, tmax |-> R(100)]}

TreeCases ==
  [tree : {Chain(d) : d \in ChainDepths}, r : AxisRays] \cup
  [tree : {SelfLoop, LeafLoop}, r : AxisRays] \cup
  [tree : {bspTree}, r : {x \in BspRays : x.tmax = R(100)}]

PlanesOf(tree) ==
  IF tree = bspTree THEN bspPlanes
  ELSE IF tree \in {SelfLoop, LeafLoop} THEN [n \in DOMAIN tree |-> R(5)]
  ELSE ChainPlanes(Cardinality(DOMAIN tree) - 2)

TreeInit ==
  /\ prog \in BspPrograms
  /\ \E c \in TreeCases :
       /\ r = c.r
       /\ entry = [r |-> c.r, mesh |-> NoMesh, tree |-> c.tree,
                   planes |-> PlanesOf(c.tree)]
  /\ hit = BspHit0
  /\ loop_i = 0
  /\ node = 0
  /\ branch_lvl = 0
  /\ branch_node = [l \in 0 .. MAX_LEVEL - 1 |-> <<0, 0>>]
  /\ branch_ray = [l \in 0 .. MAX_LEVEL - 1 |-> <<R(0), R(0)>>]
  /\ pc = "loop"

TreeNext ==
  \/ BspLeaf /\ UNCHANGED besidesBsp
  \/ BspInner /\ UNCHANGED besidesBsp

InitTree ==
  /\ TreeInit
  /\ LoopParked
  /\ uniforms = [triangle_shader |-> 0, matt_shader |-> 0, sphere_shader |-> 0]
  /\ AccParked
  /\ W5Parked /\ RndParked

SpecTree == InitTree /\ [][TreeNext]_vars

\* the nodes k links below the root
RECURSIVE Level(_, _)
Level(tree, k) ==
  IF k = 0 THEN {0}
  ELSE UNION {{tree[n].z, tree[n].w} :
                n \in {m \in Level(tree, k - 1) : tree[m].axis_leaf # BSP_LEAF}}

\* no node lies more than MAX_LEVEL links below the root
DepthWithinCap(tree) == Level(tree, MAX_LEVEL + 1) = {}

\* what a step of the loop does to the stack
StackStep ==
  /\ (branch_lvl' > branch_lvl \/ branch_node' # branch_node
        \/ branch_ray' # branch_ray) => branch_lvl \in 0 .. MAX_LEVEL - 1
  /\ branch_lvl' < branch_lvl => branch_lvl' \in 0 .. MAX_LEVEL - 1
  /\ branch_lvl' \in 0 .. MAX_LEVEL

\* C21: over a tree none of whose nodes lies deeper than MAX_LEVEL, every
\* iteration that writes branch_node and branch_ray writes them at an index
\* in [0, MAX_LEVEL - 1] and every pop reads them at such an index.
C21_StackInBounds ==
  [][pc = "loop" /\ DepthWithinCap(Tree) => StackStep]_vars

\* the chain of depth MAX_LEVEL: the last entry of the stack was written
\* and has been popped
C21_Witness ==
  /\ DepthWithinCap(Tree)
  /\ Tree = Chain(MAX_LEVEL)
  /\ branch_lvl = MAX_LEVEL - 1
  /\ branch_node[MAX_LEVEL - 1] = <<MAX_LEVEL - 1, node>>
  /\ loop_i = MAX_LEVEL
  /\ pc = "loop"

\* 2 to the n-th
RECURSIVE Pow2(_)
Pow2(n) == IF n <= 0 THEN 1 ELSE 2 * Pow2(n - 1)

\* the iterations a subtree entered with loop counter i can take at most
\* (each iteration goes to one child or to both, and none runs past
\* MAX_LEVEL), plus one
Budget(i) == Pow2(MAX_LEVEL + 2 - i) - 1

\* the budgets of the entries on the stack, from the l-th on
RECURSIVE StackBudget(_)
StackBudget(l) ==
  IF l >= branch_lvl \/ l >= MAX_LEVEL THEN 0
  ELSE Budget(branch_node[l][1] + 1) + StackBudget(l + 1)

\* the iterations the call can still take
Rank == Budget(loop_i) + StackBudget(0)

\* an iteration of the loop: it returns or uses up some of what is left, and
\* leaves the loop with return false when it takes the counter past MAX_LEVEL
LoopStep ==
  /\ node \in DOMAIN Tree
  /\ Rank < Pow2(MAX_LEVEL + 2)
  /\ pc' = "loop" => Rank' < Rank
  /\ Rank' >= 0
  /\ pc' \in {"loop", "return true", "return false"}
  /\ loop_i' > MAX_LEVEL => pc' = "return false"
  /\ pc' = "loop" => node' \in DOMAIN Tree

\* C22: whatever the node array holds (a tree, a chain deeper than
\* MAX_LEVEL, child links that lead back to the root), every iteration of
\* intersect_trimesh returns or lowers a rank that starts below
\* 2^(MAX_LEVEL + 2) and stays at or above 0, so the call ends after a
\* bounded number of iterations; the iteration that takes the counter past MAX_LEVEL ends it
\* with return false.
C22_BoundedTraversal ==
  [][pc = "loop" => LoopStep]_vars

\* the loop over the node array whose root is its own child was left by the
\* counter
C22_Witness ==
  /\ Tree = SelfLoop
  /\ pc = "return false"
  /\ loop_i = MAX_LEVEL + 1

(***************************************************************************)
(* Both roots of the sphere (SpecScene).                                   *)
(***************************************************************************)
\* the shaders whose intersect_sphere the interval contract is stated for
SpherePrograms == {"part_000/1", "part_000/3", "week08/part3"}

\* the sphere tested at this position of intersect_scene
SphereAt(at) ==
  CASE at = "sphere1" -> [c |-> Sphere1Centre, radius |-> R(90)]
    [] at = "sphere2" -> [c |-> Sphere2Centre, radius |-> R(90)]
    [] OTHER -> [c |-> SphereCentre, radius |-> SphereRadius]

\* t lies in [r.tmin, r.tmax]
InInterval(t) == ~IsNaN(t) /\ RGe(t, r.tmin) /\ LeBound(t, r.tmax)

\* the distance of the hit, hit.dist in part_000 and hit.distance in
\* week08/part3
HitDist(h) == IF prog = "week08/part3" THEN h.distance ELSE h.dist

\* the test of a sphere whose nearer root is outside the interval of the ray
\* and whose farther root is inside it (and nearer than the hit so far)
FarRootReported ==
  LET s == SphereAt(pc)
      roots == sphere_roots(r, s.c, s.radius,
                            IF prog = "week08/part3" THEN Tiny ELSE R(0))
  IN (/\ ~IsNaN(roots[1])
      /\ ~InInterval(roots[1])
      /\ InInterval(roots[2])
      /\ prog = "week08/part3" \/ LtBound(roots[2], hit.dist))
       => hit'.has_hit /\ HitDist(hit') = roots[2]

\* intersect_scene is about to test a sphere
AtSphereTest ==
  pc \in {"sphere", "sphere1", "sphere2"} /\ prog \in SpherePrograms

\* C23: a sphere test whose nearer root lies outside [tmin, tmax] and whose
\* farther root lies inside reports the farther root as the hit.
C23_BothRoots ==
  [][AtSphereTest => FarRootReported]_vars

\* the first shader of part_000 has tested the sphere for the ray refracted
\* into it at (0.2, 0.6, 0.2): the hit it returns is the plane behind the
\* sphere
C23_Witness ==
  /\ prog = "part_000/1"
  /\ pc = "done"
  /\ r.origin = Vec(1, 3, 1, 5)
  /\ r.ior = n_glass
  /\ InInterval(sphere_roots(r, SphereCentre, SphereRadius, R(0))[2])
  /\ hit.has_hit
  /\ RGt(hit.dist, sphere_roots(r, SphereCentre, SphereRadius, R(0))[2])

(***************************************************************************)
(* Emission after a diffuse bounce (SpecPath).                             *)
(***************************************************************************)
\* the direct terms lambertian can return at hit h: none, or the one of a
\* sampled light that the shadow ray found
DirectTerms(h) ==
  {V3(R(0))} \cup
  {VScale(VMul(h.diffuse, l.L_i), RMax(l.cos, R(0))) : l \in Lights("week08/part3")}

\* the shader call at a hit reached by the ray of a diffuse bounce adds
\* direct light only
NoEmissionAdded ==
  \E direct \in DirectTerms(hit) :
    res' = VAdd(res, VMul(hit.throughput, direct))

\* C24: in week08/part3, once a diffuse bounce has set hit.emit to false,
\* the shader call at the surface the continued ray hits adds no emission
\* of that surface to the radiance of the path.
C24_EmissionOnce ==
  [][pc = "shade" /\ prog = "week08/part3" /\ ~hit.emit
       => NoEmissionAdded]_vars

\* a path whose shadow rays never found the light has left a diffuse bounce
\* with hit.emit false, has hit the emitter and has radiance: the emission
\* of the emitter
C24_Witness ==
  /\ prog = "week08/part3"
  /\ pc = "done"
  /\ nIntersect >= 2
  /\ nLit = 0
  /\ ~hit.emit
  /\ hit.emission # V3(R(0))
  /\ res # V3(R(0))

(***************************************************************************)
(* The callbacks handed to requestAnimationFrame (Spec).                   *)
(***************************************************************************)
\* C25: after any sequence of clicks, option changes and animation ticks at
\* most one progressiveRender callback is pending.
C25_OnePending == pending <= 1

\* continuous rendering is on with two callbacks pending, each of which
\* hands itself to requestAnimationFrame again when it runs
C25_Witness ==
  /\ keepRender
  /\ pending = 2

(***************************************************************************)
(* The host loop under fair scheduling (SpecLive).  The browser runs every *)
(* callback handed to requestAnimationFrame and the GPU queue executes     *)
(* every submitted command buffer: weak fairness is assumed of             *)
(* progressiveRender, of the start of a render pass and of the texture     *)
(* copy that ends it, and every pass that has started finishes its         *)
(* fragments.  The user's clicks and option changes stay unconstrained.    *)
(***************************************************************************)
PassFinishes == (running # Idle) ~> (todo = {})

Fairness ==
  /\ WF_vars(progressiveRender /\ UNCHANGED besidesAcc)
  /\ WF_vars(GpuBeginPass /\ UNCHANGED besidesAcc)
  /\ WF_vars(GpuCopy /\ UNCHANGED besidesAcc)
  /\ PassFinishes

SpecLive == Init /\ [][Next]_vars /\ Fairness

\* render() has just submitted the first frame since the last reset: its
\* uniforms hold frame index 0 and the gamma getOptions() returns now
FreshFrame ==
  /\ sinceReset = 1
  /\ queue # <<>>
  /\ queue[Len(queue)].frame = 0
  /\ queue[Len(queue)].k = 0
  /\ queue[Len(queue)].gamma = options.gamma

\* C26: every reset click or option change (after which no frame has been
\* rendered yet, sinceReset = 0) is eventually followed by a rendered frame
\* that uses frame index 0 and the option values current at render time,
\* with continuous rendering on or off, given that scheduled animation
\* callbacks eventually run.
C26_ResetLeadsToFrameZero == (sinceReset = 0) ~> FreshFrame

\* a frame with index 0 submitted after a reset during continuous rendering,
\* once the GPU has finished the frames submitted before it
C26_Witness ==
  /\ FreshFrame
  /\ keepRender
  /\ running = Idle
  /\ \A p \in Pixels : sampleCount[p] >= 1

(***************************************************************************)
(* The week-5 host loop (SpecW5).                                          *)
(***************************************************************************)
\* frameId is set exactly while one renderFrame callback waits
OneRequest == rafPending <= 1 /\ (frameId # Null <=> rafPending = 1)

\* a step that runs renderFrame uploads the parameters as they are then
RunUploads == rafPending' < rafPending => uniformsData' = params /\ drawn'.group = currentGroup

\* C27: in the week-5 host loop frameId is non-null exactly while one
\* renderFrame callback is pending, so any number of parameter changes between
\* two animation ticks schedules at most one renderFrame, and the frame that
\* runs uploads the parameter values current when it runs.
C27_OneFramePerTick == []OneRequest /\ [][RunUploads]_vars

\* a frame has run after two parameter changes made while one request waited:
\* nothing waits any more and the buffer holds both changes
C27_Witness ==
  /\ rafPending = 0
  /\ frameId = Null
  /\ uniformsData.subdivs = 5
  /\ uniformsData.sphereMaterial = 1
  /\ uniformsData = params
  /\ drawn.group = 0

\* every index compute_jitters assigned lies inside the Float32Array
WritesInside == jitter.dropped = {} /\ \A k \in jitter.written : k < JitterLength

\* every jitter[p] the draw reads is an entry the array holds, and one that
\* the compute_jitters of the same frame has filled
ReadsInside ==
  \A p \in drawn.reads :
    /\ p < JitterEntries
    /\ 2 * p \in jitter.written
    /\ 2 * p + 1 \in jitter.written

\* C28: after any sequence of increase and decrease clicks the subdivision
\* count stays in [1, 10], so compute_jitters writes only indices below 200
\* of the 200-element jitter array and the subdivs * subdivs jitter reads of
\* the shader stay within the entries the array holds.
C28_SubdivsInRange ==
  /\ params.subdivs \in 1 .. 10
  /\ uniformsData.subdivs \in 1 .. 10
  /\ WritesInside
  /\ ReadsInside

\* a frame drawn at the largest count: all 200 indices written, 100 entries read
C28_Witness ==
  /\ uniformsData.subdivs = 10
  /\ jitter.written = 0 .. JitterLength - 1
  /\ drawn.reads = 0 .. JitterEntries - 1
  /\ rafPending = 0

(***************************************************************************)
(* The random number generator (SpecRnd).                                  *)
(***************************************************************************)
\* the state of mcg31 is below 2^31
StateInRange == draws > 0 => prev[1] < 32768

\* the last rnd() returned a value of [0, 1)
RndBelowOne == BelowOne(picked.xi)

\* the light index chosen is one of the array
IndexInRange == picked.indexed /\ numLights > 0 => picked.l_idx \in 0 .. numLights - 1

\* without lights nothing is indexed
NoLightNoIndex == numLights = 0 => ~picked.indexed

\* C29: mcg31 keeps its state in [0, 2^31 - 1] after every step, so rnd
\* returns a value in [0, 1) and sample_area_light always selects a light
\* index in [0, numLights - 1]; with numLights = 0 it returns a zero light
\* without indexing the light array.
C29_RndAndIndex == StateInRange /\ RndBelowOne /\ IndexInRange /\ NoLightNoIndex

\* sample_area_light has indexed lightIndices at numLights, one past its end,
\* with the state of mcg31 in range
C29_Witness ==
  /\ StateInRange
  /\ numLights > 0
  /\ picked.indexed
  /\ picked.l_idx = numLights

(***************************************************************************)
(* The child entered first at an inner node (SpecBsp).                     *)
(***************************************************************************)
\* the direction along the split axis of node n with which the start of the
\* interval, origin + tmin * direction, would lie on the plane (tmin > 0)
OnPlaneDir(ray, n) ==
  RDiv(RSub(Planes[n], ray.origin[Tree[n].axis_leaf + 1]), ray.tmin)

\* the child of n on the side of the split plane where the interval starts;
\* a start on the plane decides nothing
StartSide(ray, n) ==
  LET axis_dir == ray.direction[Tree[n].axis_leaf + 1] IN
  IF RLt(axis_dir, OnPlaneDir(ray, n)) THEN {Tree[n].z}
  ELSE IF RLt(OnPlaneDir(ray, n), axis_dir) THEN {Tree[n].w}
  ELSE {Tree[n].z, Tree[n].w}

AtInnerNode == pc = "loop" /\ Tree[node].axis_leaf # BSP_LEAF

\* C30: at an internal BSP node, for every sign and magnitude of the ray
\* direction along the split axis, a negative component smaller in magnitude
\* than 1e-8 included, the child intersect_trimesh descends into first is the
\* one on the side of the split plane where the current interval of the ray
\* starts.
C30_NearSideFirst == [][AtInnerNode => node' \in StartSide(r, node)]_vars

\* a ray that leans against the axis by less than 1e-8 and starts below the
\* plane has been sent into the child above it
C30_Witness ==
  /\ prog \in BspPrograms
  /\ loop_i = 1
  /\ RLt(entry.r.direction[1], R(0))
  /\ RLt(RAbs(entry.r.direction[1]), Tiny)
  /\ StartSide(entry.r, 0) = {Tree[0].z}
  /\ Tree[0].z # Tree[0].w
  /\ node = Tree[0].w

====
